---------------------------- MODULE Spec2Model ----------------------------
(***************************************************************************)
(* Model of the spy_agent trade simulator (backtester.py), the option      *)
(* pricer it calls (options_model.py) and the detector scan loop           *)
(* (patterns.py).                                                          *)
(*                                                                         *)
(* Units.  Python floats are modelled as exact fixed-point integers:       *)
(*   underlying prices         cents             (45000 = $450.00)         *)
(*   premiums and capital      1/100 of a cent   (8000  = $0.80)           *)
(*   volatility                1/1000            (180   = 0.18)            *)
(*   time to expiry            tenths of a minute left to the 16:00 close  *)
(*   timestamps                day * MinutesPerDay + minute of the day     *)
(* Percentages of the configuration are whole numbers, as in config.py.    *)
(***************************************************************************)
EXTENDS Integers, Sequences, FiniteSets, TLC

VARIABLES
    config,             \* AgentConfig used by the run
    df,                 \* intraday bars, ordered by timestamp: [ts, close]
    pc,                 \* position in the operation being run
    signal,             \* loop variable of _simulate_trades (NoSignal before the loop)
    n_seen,             \* number of signals the loop has consumed
    trades,             \* list of OptionTrade built by _simulate_trades
    capital,            \* running capital of _simulate_trades
    active_trade_date,  \* None, or Some(date of the last accepted trade)
    final_capital,      \* None, or Some(BacktestResult.final_capital)
    exit_result,        \* dict returned by a direct _find_exit call
    det_idx,            \* position in the detector list of PatternDetector.scan
    enabled,            \* config.enabled_patterns, as detector positions
    emitted,            \* per detector passed so far: [raised, out]
    signals,            \* list built by PatternDetector.scan
    scan_result,        \* None, or Some(list scan returned)
    columns,            \* column names of the DataFrame handed to scan
    call_args,          \* arguments of a direct call of a pure function
    call_result,        \* None, or Some(value the call returned)
    ctx,                \* indicator values handed to the detectors
    det_out,            \* detector name -> list of Signal it returned
    in_squeeze,         \* local flag of _detect_bb_squeeze
    bw_seen,            \* bars _detect_bb_squeeze has passed: [bw, side, emitted]
    squeeze_signals,    \* list built by _detect_bb_squeeze
    today,              \* the day dt.date.today() returns during the run
    last_alerts,        \* AlertManager._last_alerts: key -> None or Some(time)
    alert_log           \* calls of AlertManager.alert so far: [signal, text, before, after]

vars == <<config, df, pc, signal, n_seen, trades, capital, active_trade_date,
          final_capital, exit_result, det_idx, enabled, emitted, signals,
          scan_result, columns, call_args, call_result, ctx, det_out,
          in_squeeze, bw_seen, squeeze_signals, today, last_alerts, alert_log>>

exitVars == <<exit_result>>
scanVars == <<det_idx, enabled, emitted, signals, scan_result, columns>>
callVars == <<call_args, call_result>>
detectVars == <<ctx, det_out>>
squeezeVars == <<in_squeeze, bw_seen, squeeze_signals>>
alertVars == <<last_alerts, alert_log>>
clockVars == <<today>>
unitVars == <<callVars, detectVars, squeezeVars, alertVars, clockVars>>

-----------------------------------------------------------------------------
(* Bounds of the model *)

MaxDays == 2        \* calendar days in the bar series
MaxBars == 2        \* bars per day
MaxSignals == 3     \* signals consumed by one _simulate_trades call
MaxAlertCalls == 3  \* calls of AlertManager.alert in one monitor session

(* Program constants *)

MinutesPerDay == 1440
MarketCloseMinute == 960          \* dt.time(16, 0)
BarInterval == 30                 \* minutes between bars of the series
PremiumPerCent == 100             \* premium units in one cent
MinPriceCents == 1                \* max(price, 0.01)
MinTradeablePremium == 500        \* entry_premium < 0.05
SharesPerContract == 100          \* options are per 100 shares
DefaultInitialCapital == 100000000
DefaultPositionSizePct == 5
DefaultMaxLossPct == 50
DefaultProfitTargetPct == 100
DefaultSlippagePct == 1
DefaultCommission == 6500
DefaultIv == 150
DefaultRiskFreeRate == 50

None == <<>>                      \* Python None; Some(x) is a value that is set
Some(x) == <<x>>
NoSignal == [timestamp |-> 0, direction |-> "NONE", entry_price |-> 0]
NoExit == [exit_reason |-> "none"]

Max(a, b) == IF a >= b THEN a ELSE b
Abs(a) == IF a >= 0 THEN a ELSE -a

\* int(a / b) of Python for b > 0: truncation toward zero
TruncDiv(a, b) == IF a >= 0 THEN a \div b ELSE -((-a) \div b)

DateOf(ts) == ts \div MinutesPerDay
Stamp(day, minute) == day * MinutesPerDay + minute

-----------------------------------------------------------------------------
(* options_model.py *)

\* Grid on which the closed form of black_scholes_price is tabulated.
SGrid == <<44900, 45000, 45040, 45100, 45200, 43000>>
KGrid == <<449, 450, 451, 452>>
TGrid == <<1, 10, 300, 600, 900, 1200,
           14400, 14700, 15000, 28800, 29100, 29400, 43200, 43500, 43800>>
VGrid == <<180, 225>>

IndexOf(seq, x) == CHOOSE i \in 1..Len(seq) : seq[i] = x

\* S*N(d1) - K*exp(-rT)*N(d2) at r = 0.05, rounded to cents, in the order
\* S (outermost), K, T, sigma (innermost) of the grids above.
BSCallCents ==
  <<3, 4, 10, 13, 57, 71, 80, 100, 99, 123, 114, 142,
     407, 504, 411, 510, 416, 515, 585, 723, 588, 727, 591, 731,
     726, 894, 728, 897, 731, 901, 0, 0, 0, 0, 20, 32,
     40, 58, 56, 79, 71, 98, 358, 455, 362, 461, 367, 466,
     535, 673, 538, 677, 542, 681, 675, 844, 678, 848, 681, 851,
     0, 0, 0, 0, 5, 12, 17, 30, 29, 48, 41, 64,
     313, 410, 317, 415, 322, 420, 488, 626, 492, 630, 495, 634,
     627, 796, 630, 800, 633, 803, 0, 0, 0, 0, 1, 3,
     6, 14, 13, 27, 21, 40, 272, 367, 277, 373, 281, 378,
     444, 581, 447, 585, 451, 589, 582, 750, 584, 753, 587, 757,
     100, 100, 100, 100, 120, 132, 140, 158, 157, 180, 172, 198,
     461, 558, 465, 563, 469, 568, 639, 776, 642, 780, 645, 784,
     780, 948, 783, 951, 785, 954, 3, 4, 10, 13, 57, 71,
     81, 100, 99, 123, 114, 143, 408, 505, 412, 511, 416, 516,
     586, 724, 590, 728, 593, 732, 727, 896, 730, 899, 733, 903,
     0, 0, 0, 0, 20, 32, 40, 58, 57, 80, 71, 98,
     359, 457, 363, 462, 368, 467, 537, 675, 540, 679, 543, 683,
     677, 846, 680, 850, 682, 853, 0, 0, 0, 0, 5, 12,
     17, 31, 29, 48, 41, 64, 314, 411, 318, 416, 323, 422,
     490, 628, 493, 631, 496, 635, 629, 798, 632, 802, 634, 805,
     140, 140, 140, 140, 153, 162, 170, 186, 185, 206, 198, 224,
     483, 580, 488, 585, 492, 590, 661, 798, 665, 802, 668, 806,
     802, 970, 805, 973, 808, 976, 40, 40, 41, 42, 79, 93,
     102, 122, 120, 144, 136, 164, 429, 526, 433, 532, 437, 537,
     608, 745, 611, 749, 614, 753, 749, 917, 751, 921, 754, 924,
     0, 0, 0, 0, 32, 45, 54, 73, 72, 96, 87, 115,
     378, 476, 383, 482, 387, 487, 557, 695, 560, 699, 563, 703,
     697, 867, 700, 870, 703, 873, 0, 0, 0, 0, 9, 18,
     25, 40, 39, 59, 52, 77, 332, 429, 336, 435, 340, 440,
     509, 647, 512, 651, 515, 655, 649, 818, 651, 821, 654, 825,
     200, 200, 200, 200, 206, 212, 218, 231, 230, 249, 242, 265,
     518, 614, 523, 619, 527, 625, 696, 832, 699, 836, 702, 840,
     836, 1004, 839, 1007, 842, 1010, 100, 100, 100, 100, 121, 132,
     141, 159, 157, 180, 172, 199, 461, 559, 466, 564, 470, 569,
     640, 778, 643, 782, 647, 786, 781, 950, 784, 953, 787, 956,
     3, 4, 10, 13, 57, 71, 81, 101, 99, 124, 115, 143,
     409, 507, 413, 512, 417, 517, 588, 726, 591, 730, 594, 734,
     729, 898, 732, 901, 734, 905, 0, 0, 0, 0, 20, 32,
     40, 58, 57, 80, 71, 98, 360, 458, 364, 463, 368, 468,
     538, 676, 541, 680, 544, 684, 679, 848, 681, 852, 684, 855,
     300, 300, 300, 300, 302, 304, 307, 315, 315, 328, 323, 341,
     580, 674, 584, 679, 589, 684, 755, 890, 759, 894, 762, 898,
     895, 1061, 898, 1064, 901, 1067, 200, 200, 200, 200, 206, 212,
     218, 231, 230, 249, 242, 265, 519, 615, 524, 620, 528, 626,
     697, 833, 700, 837, 703, 841, 838, 1005, 841, 1009, 843, 1012,
     100, 100, 100, 100, 121, 132, 141, 159, 157, 180, 172, 199,
     462, 560, 467, 565, 471, 571, 642, 779, 645, 783, 648, 787,
     783, 952, 786, 955, 789, 958, 3, 4, 10, 13, 57, 71,
     81, 101, 99, 124, 115, 143, 410, 508, 414, 513, 418, 518,
     589, 728, 592, 732, 595, 735, 730, 900, 733, 903, 736, 907,
     0, 0, 0, 0, 0, 0, 0, 0, 0, 0, 0, 0,
     9, 30, 10, 32, 11, 34, 55, 120, 56, 122, 57, 124,
     116, 220, 118, 222, 119, 224, 0, 0, 0, 0, 0, 0,
     0, 0, 0, 0, 0, 0, 7, 25, 8, 27, 8, 28,
     47, 107, 48, 109, 49, 111, 104, 202, 105, 204, 106, 206,
     0, 0, 0, 0, 0, 0, 0, 0, 0, 0, 0, 0,
     5, 21, 6, 22, 6, 23, 40, 95, 41, 97, 42, 99,
     92, 185, 93, 187, 95, 189, 0, 0, 0, 0, 0, 0,
     0, 0, 0, 0, 0, 0, 4, 17, 4, 18, 5, 19,
     34, 85, 35, 86, 35, 88, 82, 169, 83, 171, 84, 173>>

\* K*exp(-rT)*N(-d2) - S*N(-d1), same grid and order.
BSPutCents ==
  <<3, 4, 10, 13, 56, 70, 79, 99, 97, 121, 111, 139,
     374, 471, 378, 476, 381, 481, 519, 657, 522, 660, 524, 663,
     627, 796, 629, 798, 631, 801, 100, 100, 100, 100, 119, 131,
     139, 157, 154, 177, 168, 195, 425, 522, 429, 527, 432, 532,
     569, 707, 572, 711, 574, 714, 677, 846, 679, 848, 681, 851,
     200, 200, 200, 200, 204, 211, 216, 229, 227, 246, 238, 261,
     480, 577, 484, 581, 487, 586, 622, 760, 625, 763, 627, 766,
     728, 897, 730, 900, 732, 902, 300, 300, 300, 300, 300, 303,
     305, 313, 311, 325, 319, 337, 539, 634, 543, 639, 546, 643,
     678, 815, 681, 818, 683, 821, 783, 951, 785, 954, 786, 956,
     0, 0, 0, 0, 20, 31, 39, 57, 55, 78, 69, 96,
     328, 425, 331, 429, 335, 434, 473, 610, 476, 614, 478, 617,
     581, 749, 583, 752, 585, 755, 3, 4, 10, 13, 56, 70,
     79, 99, 97, 121, 112, 140, 375, 472, 378, 477, 382, 482,
     520, 658, 523, 662, 525, 665, 628, 797, 630, 800, 632, 803,
     100, 100, 100, 100, 120, 131, 139, 157, 155, 178, 168, 195,
     426, 524, 430, 528, 433, 533, 571, 709, 573, 712, 576, 715,
     678, 847, 680, 850, 682, 852, 200, 200, 200, 200, 204, 211,
     216, 229, 227, 246, 238, 261, 481, 578, 485, 582, 488, 587,
     623, 761, 626, 765, 628, 768, 730, 899, 732, 902, 734, 904,
     0, 0, 0, 0, 12, 21, 28, 45, 43, 64, 56, 81,
     310, 407, 314, 412, 318, 416, 456, 592, 458, 596, 461, 599,
     564, 731, 566, 734, 568, 737, 0, 0, 1, 2, 38, 52,
     61, 81, 78, 102, 93, 121, 356, 453, 359, 458, 363, 463,
     502, 640, 504, 643, 507, 646, 610, 779, 612, 781, 614, 784,
     60, 60, 60, 60, 91, 104, 113, 132, 130, 154, 144, 172,
     405, 503, 409, 508, 413, 512, 551, 689, 553, 692, 556, 695,
     658, 828, 660, 830, 662, 833, 160, 160, 160, 160, 169, 177,
     183, 199, 197, 217, 209, 234, 459, 556, 462, 561, 466, 565,
     602, 741, 605, 744, 607, 747, 709, 879, 711, 881, 713, 884,
     0, 0, 0, 0, 5, 11, 16, 30, 28, 47, 39, 62,
     286, 381, 289, 386, 293, 390, 430, 566, 433, 569, 435, 573,
     538, 705, 540, 708, 542, 710, 0, 0, 0, 0, 20, 31,
     39, 57, 55, 78, 69, 96, 329, 426, 332, 430, 336, 435,
     474, 612, 477, 615, 479, 618, 583, 751, 585, 754, 587, 756,
     3, 4, 10, 13, 56, 70, 79, 99, 97, 121, 112, 140,
     376, 473, 379, 478, 383, 483, 522, 660, 524, 663, 527, 666,
     630, 799, 632, 802, 634, 804, 100, 100, 100, 100, 120, 131,
     139, 157, 155, 178, 168, 196, 427, 525, 430, 529, 434, 534,
     572, 710, 574, 714, 577, 717, 679, 849, 681, 852, 683, 854,
     0, 0, 0, 0, 1, 3, 6, 14, 13, 26, 21, 39,
     247, 341, 251, 345, 254, 350, 390, 524, 392, 527, 395, 531,
     497, 662, 499, 665, 501, 668, 0, 0, 0, 0, 5, 11,
     17, 30, 28, 47, 40, 63, 286, 382, 290, 387, 294, 391,
     431, 568, 434, 571, 436, 574, 539, 707, 541, 709, 543, 712,
     0, 0, 0, 0, 20, 32, 39, 58, 55, 78, 69, 96,
     329, 427, 333, 431, 337, 436, 476, 613, 478, 617, 481, 620,
     584, 753, 586, 755, 588, 758, 3, 4, 10, 13, 56, 71,
     80, 100, 97, 122, 112, 140, 376, 475, 380, 479, 384, 484,
     523, 661, 525, 665, 528, 668, 631, 801, 633, 804, 635, 806,
     1900, 1900, 1900, 1900, 1899, 1899, 1899, 1899, 1898, 1898, 1897, 1897,
     1876, 1898, 1876, 1898, 1876, 1899, 1889, 1954, 1889, 1955, 1890, 1957,
     1918, 2021, 1919, 2022, 1919, 2024, 2000, 2000, 2000, 2000, 1999, 1999,
     1999, 1999, 1998, 1998, 1997, 1997, 1974, 1992, 1974, 1993, 1974, 1994,
     1981, 2041, 1981, 2042, 1982, 2043, 2005, 2103, 2006, 2104, 2006, 2106,
     2100, 2100, 2100, 2100, 2099, 2099, 2099, 2099, 2098, 2098, 2097, 2097,
     2072, 2088, 2072, 2088, 2072, 2089, 2074, 2129, 2074, 2130, 2074, 2131,
     2093, 2186, 2094, 2187, 2094, 2188, 2200, 2200, 2200, 2200, 2199, 2199,
     2199, 2199, 2198, 2198, 2197, 2197, 2171, 2184, 2171, 2184, 2170, 2184,
     2168, 2218, 2168, 2219, 2168, 2220, 2182, 2270, 2183, 2271, 2183, 2272>>

GridIndex(S, K, T, sigma) ==
    (((IndexOf(SGrid, S) - 1) * Len(KGrid) + (IndexOf(KGrid, K) - 1)) * Len(TGrid)
        + (IndexOf(TGrid, T) - 1)) * Len(VGrid) + IndexOf(VGrid, sigma)

ClosedForm(S, K, T, sigma, option_type) ==
    IF option_type = "CALL" THEN BSCallCents[GridIndex(S, K, T, sigma)]
                            ELSE BSPutCents[GridIndex(S, K, T, sigma)]

Intrinsic_Floored(S, K, option_type) ==
    IF option_type = "CALL"
    THEN Max(Max(S - K * 100, 0), MinPriceCents) * PremiumPerCent
    ELSE Max(Max(K * 100 - S, 0), MinPriceCents) * PremiumPerCent

Intrinsic(S, K, option_type) ==
    IF option_type = "CALL" THEN Max(S - K * 100, 0) * PremiumPerCent
                            ELSE Max(K * 100 - S, 0) * PremiumPerCent

\* lines 60-62: for T > 0, S / K raises ZeroDivisionError when K = 0,
\* math.log raises ValueError when S / K <= 0, and the division by
\* sigma * sqrt_T raises ZeroDivisionError when sigma = 0
black_scholes_raises(S, K, T, sigma) ==
    /\ T > 0
    /\ \/ K = 0
       \/ (S <= 0 /\ K > 0) \/ (S >= 0 /\ K < 0)
       \/ sigma = 0

black_scholes_price(S, K, T, r, sigma, option_type) ==
    IF T <= 0
    THEN Intrinsic(S, K, option_type)
    ELSE Max(ClosedForm(S, K, T, sigma, option_type), MinPriceCents) * PremiumPerCent

\* round(underlying_price): Python rounds halves to the even integer
PyRound(cents) ==
    LET whole == cents \div 100
        frac  == cents % 100
    IN  IF frac < 50 THEN whole
        ELSE IF frac > 50 THEN whole + 1
        ELSE IF whole % 2 = 0 THEN whole ELSE whole + 1

select_strike(underlying_price, option_type, moneyness) ==
    LET rounded == PyRound(underlying_price)
        sign    == IF option_type = "CALL" THEN 1 ELSE -1
    IN  CASE moneyness = "ATM"  -> rounded
          [] moneyness = "OTM1" -> rounded + sign
          [] moneyness = "OTM2" -> rounded + 2 * sign
          [] moneyness = "ITM1" -> rounded - sign
          [] OTHER              -> rounded

estimate_iv_from_time_Inclusive(minutes_to_close, base_iv) ==
    LET multiplier ==
            IF minutes_to_close >= 3000 THEN 25
            ELSE IF minutes_to_close >= 1800 THEN 20
            ELSE IF minutes_to_close >= 600 THEN 15
            ELSE 12
    IN  (base_iv * multiplier) \div 10

\* minutes_to_close in tenths of a minute; hours > 5 is minutes > 300
estimate_iv_from_time(minutes_to_close, base_iv) ==
    LET multiplier ==
            IF minutes_to_close > 3000 THEN 25
            ELSE IF minutes_to_close > 1800 THEN 20
            ELSE IF minutes_to_close > 600 THEN 15
            ELSE 12
    IN  (base_iv * multiplier) \div 10

\* OptionTrade.pnl_per_contract, total_pnl (capital units)
pnl_per_contract(t) == (t.exit_premium - t.entry_premium) * SharesPerContract
total_pnl(t) == pnl_per_contract(t) * t.contracts

-----------------------------------------------------------------------------
(* backtester.py: Backtester._find_exit *)

OptionTypeOf(direction) == IF direction = "LONG" THEN "CALL" ELSE "PUT"

\* entry_premium * (1 - stop_pct), entry_premium * (1 + target_pct)
StopPremium(cfg, entry_premium) ==
    (entry_premium * (100 - cfg.max_loss_per_trade_pct)) \div 100
TargetPremium(cfg, entry_premium) ==
    (entry_premium * (100 + cfg.profit_target_pct)) \div 100

\* variant: the same-day restriction of line 344 is missing
IsForward_AnyDay(sig, bar) == bar.ts > sig.timestamp

\* variant: the bar at the signal's own timestamp is kept
IsForward_Inclusive(sig, bar) ==
    bar.ts >= sig.timestamp /\ DateOf(bar.ts) = DateOf(sig.timestamp)

\* df[df.index > signal.timestamp], restricted to the signal's date
IsForward(sig, bar) ==
    bar.ts > sig.timestamp /\ DateOf(bar.ts) = DateOf(sig.timestamp)
ForwardBars(sig, bars) == SelectSeq(bars, LAMBDA bar : IsForward(sig, bar))

\* line 342: signal.timestamp.date() if the timestamp has a date, else None
SignalDate(sig) ==
    IF sig.timestamp \in Int THEN Some(DateOf(sig.timestamp)) ELSE None

\* variant: the close is taken on the day the simulation is run
MarketClose_WallClock(sig, clock) == Stamp(clock, MarketCloseMinute)

\* lines 346-348: combine(signal_date or dt.date.today(), dt.time(16, 0));
\* clock is the date dt.date.today() returns
MarketClose(sig, clock) ==
    Stamp(IF SignalDate(sig) # None THEN SignalDate(sig)[1] ELSE clock,
          MarketCloseMinute)

\* max((market_close - bar_time).total_seconds() / 60, 0.1), in tenths
MinutesLeft(bar_time, market_close) ==
    Max((market_close - bar_time) * 10, 1)

CurrentPremium(cfg, bar, strike, iv, opt_type, market_close) ==
    black_scholes_price(bar.close, strike, MinutesLeft(bar.ts, market_close),
                        cfg.risk_free_rate, iv, opt_type)

StopHit(cfg, bar, strike, iv, opt_type, entry_premium, market_close) ==
    CurrentPremium(cfg, bar, strike, iv, opt_type, market_close) <= StopPremium(cfg, entry_premium)
TargetHit(cfg, bar, strike, iv, opt_type, entry_premium, market_close) ==
    CurrentPremium(cfg, bar, strike, iv, opt_type, market_close) >= TargetPremium(cfg, entry_premium)

\* variant: the profit target is checked before the stop loss
ExitAtBar_TargetFirst(cfg, bar, strike, iv, opt_type, entry_premium, market_close) ==
    IF TargetHit(cfg, bar, strike, iv, opt_type, entry_premium, market_close)
    THEN [exit_time |-> bar.ts, exit_price |-> bar.close,
          exit_premium |-> TargetPremium(cfg, entry_premium),
          exit_reason |-> "profit_target"]
    ELSE [exit_time |-> bar.ts, exit_price |-> bar.close,
          exit_premium |-> StopPremium(cfg, entry_premium),
          exit_reason |-> "stop_loss"]

\* what the loop body returns at a bar where it returns
ExitAtBar(cfg, bar, strike, iv, opt_type, entry_premium, market_close) ==
    IF StopHit(cfg, bar, strike, iv, opt_type, entry_premium, market_close)
    THEN [exit_time |-> bar.ts, exit_price |-> bar.close,
          exit_premium |-> StopPremium(cfg, entry_premium),
          exit_reason |-> "stop_loss"]
    ELSE [exit_time |-> bar.ts, exit_price |-> bar.close,
          exit_premium |-> TargetPremium(cfg, entry_premium),
          exit_reason |-> "profit_target"]

\* variant: the expiration value is taken on the wrong side of the strike
ExitAfterLoop_WrongSide(sig, forward, strike, opt_type) ==
    IF Len(forward) > 0
    THEN [exit_time |-> forward[Len(forward)].ts,
          exit_price |-> forward[Len(forward)].close,
          exit_premium |-> Intrinsic(forward[Len(forward)].close, strike,
                                     IF opt_type = "CALL" THEN "PUT" ELSE "CALL"),
          exit_reason |-> "expiration"]
    ELSE [exit_time |-> sig.timestamp, exit_price |-> sig.entry_price,
          exit_premium |-> 0, exit_reason |-> "no_data"]

\* the code after the loop: expiration at the last forward bar, or no data
ExitAfterLoop(sig, forward, strike, opt_type) ==
    IF Len(forward) > 0
    THEN [exit_time |-> forward[Len(forward)].ts,
          exit_price |-> forward[Len(forward)].close,
          exit_premium |-> Intrinsic(forward[Len(forward)].close, strike, opt_type),
          exit_reason |-> "expiration"]
    ELSE [exit_time |-> sig.timestamp, exit_price |-> sig.entry_price,
          exit_premium |-> 0, exit_reason |-> "no_data"]

\* for i in range(len(forward)), from bar i on
RECURSIVE ScanForward(_, _, _, _, _, _, _, _, _)
ScanForward(cfg, sig, forward, i, strike, iv, opt_type, entry_premium, market_close) ==
    IF i > Len(forward)
    THEN ExitAfterLoop(sig, forward, strike, opt_type)
    ELSE IF \/ StopHit(cfg, forward[i], strike, iv, opt_type, entry_premium, market_close)
            \/ TargetHit(cfg, forward[i], strike, iv, opt_type, entry_premium, market_close)
         THEN ExitAtBar(cfg, forward[i], strike, iv, opt_type, entry_premium, market_close)
         ELSE ScanForward(cfg, sig, forward, i + 1, strike, iv, opt_type,
                          entry_premium, market_close)

\* _find_exit when dt.date.today() is clock
find_exit_on(clock, cfg, sig, bars, opt_type, strike, iv, entry_premium) ==
    ScanForward(cfg, sig, ForwardBars(sig, bars), 1, strike, iv, opt_type,
                entry_premium, MarketClose(sig, clock))

find_exit(cfg, sig, bars, opt_type, strike, iv, entry_premium) ==
    find_exit_on(today, cfg, sig, bars, opt_type, strike, iv, entry_premium)

-----------------------------------------------------------------------------
(* backtester.py: Backtester._simulate_trades *)

\* max((market_close - signal.timestamp).total_seconds() / 60, 1), in tenths
MinutesToClose(sig) ==
    Max((Stamp(DateOf(sig.timestamp), MarketCloseMinute) - sig.timestamp) * 10, 10)

StrikeOf(sig) == select_strike(sig.entry_price, OptionTypeOf(sig.direction), "ATM")
IvOf(cfg, sig) == estimate_iv_from_time(MinutesToClose(sig), cfg.default_iv)
EntryPremium(cfg, sig) ==
    black_scholes_price(sig.entry_price, StrikeOf(sig), MinutesToClose(sig),
                        cfg.risk_free_rate, IvOf(cfg, sig), OptionTypeOf(sig.direction))

\* line 270: the call of black_scholes_price does not return
EntryPricingRaises(cfg, sig) ==
    black_scholes_raises(sig.entry_price, StrikeOf(sig), MinutesToClose(sig), IvOf(cfg, sig))

\* lines 278-283: the contract count the trade is opened with
Contracts(cfg, cap, entry_premium) ==
    LET per_contract == entry_premium * SharesPerContract
        sized == Max(TruncDiv(cap * cfg.position_size_pct, 100 * per_contract), 1)
    IN  IF sized * per_contract > cap
        THEN Max(TruncDiv(cap, per_contract), 1)
        ELSE sized

\* lines 248-305 when dt.date.today() is clock
NewTradeOn(clock, cfg, sig, bars, cap) ==
    LET opt_type == OptionTypeOf(sig.direction)
        premium  == EntryPremium(cfg, sig)
        result   == find_exit_on(clock, cfg, sig, bars, opt_type, StrikeOf(sig),
                                 IvOf(cfg, sig), premium)
    IN  [entry_time       |-> sig.timestamp,
         exit_time        |-> result.exit_time,
         option_type      |-> opt_type,
         strike           |-> StrikeOf(sig),
         entry_underlying |-> sig.entry_price,
         exit_underlying  |-> result.exit_price,
         entry_premium    |-> premium,
         exit_premium     |-> result.exit_premium,
         contracts        |-> Contracts(cfg, cap, premium),
         direction        |-> sig.direction,
         iv               |-> IvOf(cfg, sig)]

NewTrade(cfg, sig, bars, cap) == NewTradeOn(today, cfg, sig, bars, cap)

RoundTripCommission(cfg, t) == t.contracts * cfg.commission_per_contract * 2
Slippage(cfg, t) == (Abs(total_pnl(t)) * cfg.slippage_pct) \div 100

\* variant: the commission is charged one way only
Settle_OneWayCommission(cfg, cap, t) ==
    cap + total_pnl(t) - t.contracts * cfg.commission_per_contract - Slippage(cfg, t)

\* lines 308-311
Settle(cfg, cap, t) ==
    cap + total_pnl(t) - RoundTripCommission(cfg, t) - Slippage(cfg, t)

\* variant: an accepted trade does not lock its day
AlreadyTradedToday_Unlocked(sig) == FALSE

\* line 245
AlreadyTradedToday(sig) == active_trade_date = Some(DateOf(sig.timestamp))

\* variant: only a premium below the pricer's floor is skipped
TooCheap_BelowFloor(cfg, sig) == EntryPremium(cfg, sig) < MinPriceCents * PremiumPerCent

\* line 274, and the unaffordable branch of line 284
TooCheap(cfg, sig) == EntryPremium(cfg, sig) < MinTradeablePremium
Unaffordable(cfg, cap, sig) == Contracts(cfg, cap, EntryPremium(cfg, sig)) = 0
-----------------------------------------------------------------------------
(* Inputs *)

DefaultConfig ==
    [initial_capital         |-> DefaultInitialCapital,
     position_size_pct       |-> DefaultPositionSizePct,
     max_loss_per_trade_pct  |-> DefaultMaxLossPct,
     profit_target_pct       |-> DefaultProfitTargetPct,
     slippage_pct            |-> DefaultSlippagePct,
     commission_per_contract |-> DefaultCommission,
     risk_free_rate          |-> DefaultRiskFreeRate,
     default_iv              |-> DefaultIv]

\* --capital is any float: the default and $82; 0 and -$100 for a run that
\* starts without capital
InitialCapitals == <<DefaultInitialCapital, 820000>>
UnfundedCapitals == <<0, -1000000>>
ConfigWith(c) == [DefaultConfig EXCEPT !.initial_capital = c]

\* stop and target percentages tried by the direct _find_exit calls; the fields
\* are unvalidated floats, <<-50, 0>> is an inverted stop (stop above target)
ExitConfigs ==
    {[DefaultConfig EXCEPT !.max_loss_per_trade_pct = p[1], !.profit_target_pct = p[2]] :
        p \in {<<DefaultMaxLossPct, DefaultProfitTargetPct>>, <<25, 25>>, <<0, 0>>,
               <<-50, 0>>}}

Days == 1..MaxDays
BarTime(j) == MarketCloseMinute - BarInterval * (MaxBars - j)
BarCloses == {44900, 45100, 45200}

\* a series of MaxDays days with a bar every BarInterval minutes up to the close;
\* closes[j] is the close of the j-th bar of every day
Series(closes) ==
    [k \in 1..(MaxDays * MaxBars) |->
        [ts    |-> Stamp(((k - 1) \div MaxBars) + 1, BarTime(((k - 1) % MaxBars) + 1)),
         close |-> closes[((k - 1) % MaxBars) + 1]]]
DataFrames == {Series(closes) : closes \in [1..MaxBars -> BarCloses]}

\* what a signal is, up to its day: minute of the day, direction, entry price
SignalKinds ==
    {[minute |-> 900, direction |-> "LONG",  entry_price |-> 45000],
     [minute |-> 870, direction |-> "SHORT", entry_price |-> 45000],
     [minute |-> 960, direction |-> "LONG",  entry_price |-> 45000],
     [minute |-> 960, direction |-> "SHORT", entry_price |-> 45040]}
Signals ==
    {[timestamp |-> Stamp(d, k.minute), direction |-> k.direction,
      entry_price |-> k.entry_price] : d \in Days, k \in SignalKinds}

-----------------------------------------------------------------------------
(* Backtester.run from the call of _simulate_trades on *)

\* the days on which the run may be made: the last day of the series, or the
\* day after it
WallClockDays == {MaxDays, MaxDays + 1}

\* no AlertManager call has been made
AlertIdle ==
    /\ last_alerts = <<>>
    /\ alert_log = <<>>

\* operations that read neither the clock nor the alert state
AmbientIdle ==
    /\ today = MaxDays
    /\ AlertIdle

ScanIdle ==
    /\ det_idx = 0
    /\ enabled = {}
    /\ emitted = <<>>
    /\ signals = <<>>
    /\ scan_result = None
    /\ columns = {}

UnitIdle ==
    /\ call_args = None
    /\ call_result = None
    /\ ctx = None
    /\ det_out = <<>>
    /\ in_squeeze = FALSE
    /\ bw_seen = <<>>
    /\ squeeze_signals = <<>>

InitWith(capitals) ==
    /\ \E i \in 1..Len(capitals) : config = ConfigWith(capitals[i])
    /\ df \in DataFrames
    /\ pc = "loop"
    /\ signal = NoSignal
    /\ n_seen = 0
    /\ trades = <<>>
    /\ capital = config.initial_capital
    /\ active_trade_date = None
    /\ final_capital = None
    /\ exit_result = NoExit
    /\ ScanIdle
    /\ UnitIdle
    /\ AlertIdle

Init == InitWith(InitialCapitals) /\ today = MaxDays
UnfundedInit == InitWith(UnfundedCapitals) /\ today = MaxDays
\* the same run, made on any of the days it may be made on
ReplayInit == InitWith(<<DefaultInitialCapital>>) /\ today \in WallClockDays

\* line 245-246: a trade was already accepted for the signal's date
SkipSameDay(sig) ==
    /\ pc = "loop"
    /\ n_seen < MaxSignals
    /\ AlreadyTradedToday(sig)
    /\ signal' = sig
    /\ n_seen' = n_seen + 1
    /\ UNCHANGED <<config, df, pc, trades, capital, active_trade_date, final_capital>>
    /\ UNCHANGED <<exitVars, scanVars, unitVars>>

\* lines 274-275 and 284-285: continue without a trade
SkipUntradeable(sig) ==
    /\ pc = "loop"
    /\ n_seen < MaxSignals
    /\ ~AlreadyTradedToday(sig)
    /\ ~EntryPricingRaises(config, sig)
    /\ TooCheap(config, sig) \/ Unaffordable(config, capital, sig)
    /\ signal' = sig
    /\ n_seen' = n_seen + 1
    /\ UNCHANGED <<config, df, pc, trades, capital, active_trade_date, final_capital>>
    /\ UNCHANGED <<exitVars, scanVars, unitVars>>

\* lines 287-316: open the trade, find its exit, settle it, lock the date
OpenTrade(sig) ==
    /\ pc = "loop"
    /\ n_seen < MaxSignals
    /\ ~AlreadyTradedToday(sig)
    /\ ~EntryPricingRaises(config, sig)
    /\ ~TooCheap(config, sig)
    /\ ~Unaffordable(config, capital, sig)
    /\ LET trade == NewTrade(config, sig, df, capital)
           settled == Settle(config, capital, trade)
       IN  /\ trades' = Append(trades, trade)
           /\ capital' = settled
           /\ pc' = IF settled <= 0 THEN "returned" ELSE "loop"
    /\ active_trade_date' = Some(DateOf(sig.timestamp))
    /\ signal' = sig
    /\ n_seen' = n_seen + 1
    /\ UNCHANGED <<config, df, final_capital>>
    /\ UNCHANGED <<exitVars, scanVars, unitVars>>

\* line 318: the signal list is exhausted
ReturnTrades ==
    /\ pc = "loop"
    /\ pc' = "returned"
    /\ UNCHANGED <<config, df, signal, n_seen, trades, capital, active_trade_date,
                   final_capital>>
    /\ UNCHANGED <<exitVars, scanVars, unitVars>>

RECURSIVE SumPnl(_)
SumPnl(ts) == IF ts = <<>> THEN 0 ELSE total_pnl(Head(ts)) + SumPnl(Tail(ts))

\* Backtester.run, lines 220-231
RunFinish ==
    /\ pc = "returned"
    /\ final_capital' = Some(config.initial_capital + SumPnl(trades))
    /\ pc' = "done"
    /\ UNCHANGED <<config, df, signal, n_seen, trades, capital, active_trade_date>>
    /\ UNCHANGED <<exitVars, scanVars, unitVars>>

Next ==
    \/ \E sig \in Signals : SkipSameDay(sig)
    \/ \E sig \in Signals : SkipUntradeable(sig)
    \/ \E sig \in Signals : OpenTrade(sig)
    \/ ReturnTrades
    \/ RunFinish

Spec == Init /\ [][Next]_vars
ReplaySpec == ReplayInit /\ [][Next]_vars

\* the same run, configured with an initial capital <= 0
UnfundedSpec == UnfundedInit /\ [][Next]_vars

-----------------------------------------------------------------------------
(* _simulate_trades on a signal list that holds entry prices near zero *)

\* Signal.entry_price is an unvalidated float: 0, and 0.30 whose ATM strike
\* round(0.30) is 0
UnpricedSignalKinds ==
    {[minute |-> 900, direction |-> "LONG",  entry_price |-> 0],
     [minute |-> 870, direction |-> "SHORT", entry_price |-> 30]}
UnpricedSignals ==
    {[timestamp |-> Stamp(d, k.minute), direction |-> k.direction,
      entry_price |-> k.entry_price] : d \in Days, k \in UnpricedSignalKinds}
AnySignals == Signals \cup UnpricedSignals

\* lines 270-272 are in no try block: the exception of black_scholes_price
\* leaves _simulate_trades and Backtester.run
PricingRaises(sig) ==
    /\ pc = "loop"
    /\ n_seen < MaxSignals
    /\ ~AlreadyTradedToday(sig)
    /\ EntryPricingRaises(config, sig)
    /\ signal' = sig
    /\ n_seen' = n_seen + 1
    /\ pc' = "raised"
    /\ UNCHANGED <<config, df, trades, capital, active_trade_date, final_capital>>
    /\ UNCHANGED <<exitVars, scanVars, unitVars>>

FaultInit == InitWith(<<DefaultInitialCapital>>) /\ today = MaxDays

FaultNext ==
    \/ \E sig \in AnySignals : SkipSameDay(sig)
    \/ \E sig \in AnySignals : SkipUntradeable(sig)
    \/ \E sig \in AnySignals : OpenTrade(sig)
    \/ \E sig \in AnySignals : PricingRaises(sig)
    \/ ReturnTrades
    \/ RunFinish

FaultSpec == FaultInit /\ [][FaultNext]_vars

-----------------------------------------------------------------------------
(* A direct call of Backtester._find_exit, with the arguments line 288 passes *)

ExitSignalKinds ==
    SignalKinds \cup
    {[minute |-> 930, direction |-> "LONG",  entry_price |-> 45040],
     [minute |-> 900, direction |-> "SHORT", entry_price |-> 45100]}
ExitSignals ==
    {[timestamp |-> Stamp(d, k.minute), direction |-> k.direction,
      entry_price |-> k.entry_price] : d \in Days, k \in ExitSignalKinds}

ExitInit ==
    /\ config \in ExitConfigs
    /\ df \in DataFrames
    /\ signal \in ExitSignals
    /\ pc = "find_exit"
    /\ n_seen = 0
    /\ trades = <<>>
    /\ capital = config.initial_capital
    /\ active_trade_date = None
    /\ final_capital = None
    /\ exit_result = NoExit
    /\ ScanIdle
    /\ UnitIdle
    /\ today \in WallClockDays
    /\ AlertIdle

FindExitCall ==
    /\ pc = "find_exit"
    /\ exit_result' = find_exit(config, signal, df, OptionTypeOf(signal.direction),
                                StrikeOf(signal), IvOf(config, signal),
                                EntryPremium(config, signal))
    /\ pc' = "exit_found"
    /\ UNCHANGED <<config, df, signal, n_seen, trades, capital, active_trade_date,
                   final_capital>>
    /\ UNCHANGED <<scanVars, unitVars>>

ExitNext == FindExitCall

ExitSpec == ExitInit /\ [][ExitNext]_vars

-----------------------------------------------------------------------------
(* patterns.py: PatternDetector.scan, lines 64-147 *)

MaxDetectors == 3   \* entries of the detector list the scan walks
MaxEmit == 2        \* signals one detector returns
ScanStamps == {1, 2}    \* timestamps of the scanned bars

\* lines 109-136: the names under which the detectors are registered, in order
DetectorNames ==
    <<"opening_range_breakout", "opening_range_breakdown",
      "vwap_rejection_long", "vwap_rejection_short",
      "vwap_crossover_long", "vwap_crossover_short",
      "macd_bullish_cross", "macd_bearish_cross",
      "rsi_oversold_bounce", "rsi_overbought_fade",
      "ema_bullish_cross", "ema_bearish_cross",
      "bollinger_squeeze_breakout", "volume_spike_continuation",
      "mean_reversion_long", "mean_reversion_short",
      "gap_fill_long", "gap_fill_short",
      "previous_day_high_break", "previous_day_low_break",
      "midday_reversal", "power_hour_momentum",
      "double_bottom", "double_top",
      "support_bounce", "resistance_rejection">>

\* the pattern= argument of the Signal(...) calls of the detector registered
\* at each position (lines 190, 224, 283, 319, 348, 374, 402, 429, 454, 479,
\* 503, 527, 568/576, 608/617, 643, 667, 704, 741, 772, 799, 848/861, 908/917,
\* 945, 971, 1005, 1039)
EmittedTag ==
    <<"opening_range_breakout", "opening_range_breakdown",
      "vwap_rejection_long", "vwap_rejection_short",
      "vwap_crossover_long", "vwap_crossover_short",
      "macd_bullish_cross", "macd_bearish_cross",
      "rsi_oversold_bounce", "rsi_overbought_fade",
      "ema_bullish_cross", "ema_bearish_cross",
      "bollinger_squeeze_breakout", "volume_spike_continuation",
      "mean_reversion_long", "mean_reversion_short",
      "gap_fill_long", "gap_fill_short",
      "previous_day_high_break", "previous_day_low_break",
      "midday_reversal", "power_hour_momentum",
      "double_bottom", "double_top",
      "support_bounce", "resistance_rejection">>

Detectors == 1..MaxDetectors

\* lines 78-81: the columns scan reads before any detector runs
RequiredColumns == {"close", "high", "low", "volume"}
OhlcvColumns == {"open", "high", "low", "close", "volume"}
\* a full frame, a frame without its volume column, pd.DataFrame()
ColumnSets == {OhlcvColumns, OhlcvColumns \ {"volume"}, {}}

\* what detector d can return: its signals, in emission order; detector and
\* seq record where a signal came from
DetectorOutputs(d) ==
    UNION {{[k \in 1..n |-> [timestamp |-> stamps[k], pattern |-> EmittedTag[d],
                             detector |-> d, seq |-> k]] :
                stamps \in [1..n -> ScanStamps]} : n \in 0..MaxEmit}

\* variant: an element also goes before the elements of equal key
GoesBefore_Unstable(s, placed) == s.timestamp <= placed.timestamp

\* list.sort(key=lambda s: s.timestamp) is stable: an element goes after every
\* element already placed whose key is not greater
GoesBefore(s, placed) == s.timestamp < placed.timestamp

RECURSIVE InsertByTimestamp(_, _)
InsertByTimestamp(sorted, s) ==
    IF sorted = <<>> THEN <<s>>
    ELSE IF GoesBefore(s, Head(sorted))
         THEN <<s>> \o sorted
         ELSE <<Head(sorted)>> \o InsertByTimestamp(Tail(sorted), s)

RECURSIVE SortByTimestamp(_)
SortByTimestamp(list) ==
    IF list = <<>> THEN <<>>
    ELSE InsertByTimestamp(SortByTimestamp(SubSeq(list, 1, Len(list) - 1)),
                           list[Len(list)])

\* variant: every registered detector is called
Invoked_Always(name, enabled_patterns) == TRUE

\* line 139: if name in enabled
Invoked(name, enabled_patterns) == name \in enabled_patterns

\* variant: the signals built before the exception stay in the list
KeptOnRaise_Partial(list, built) == list \o built

\* lines 141-144: the exception leaves detector(ctx) before signals.extend
\* runs, so the list is what it was
KeptOnRaise(list, built) == list

runVars == <<config, df, signal, n_seen, trades, capital, active_trade_date,
             final_capital, exit_result>>

ScanInit ==
    /\ enabled \in SUBSET {DetectorNames[d] : d \in Detectors}
    /\ columns \in ColumnSets
    /\ det_idx = 0
    /\ emitted = <<>>
    /\ signals = <<>>
    /\ scan_result = None
    /\ pc = "precompute"
    /\ config = DefaultConfig
    /\ df = <<>>
    /\ signal = NoSignal
    /\ n_seen = 0
    /\ trades = <<>>
    /\ capital = config.initial_capital
    /\ active_trade_date = None
    /\ final_capital = None
    /\ exit_result = NoExit
    /\ UnitIdle
    /\ AmbientIdle

\* lines 78-106: the columns are read and the indicators computed
Precompute ==
    /\ pc = "precompute"
    /\ RequiredColumns \subseteq columns
    /\ pc' = "scan"
    /\ UNCHANGED <<det_idx, enabled, emitted, signals, scan_result, columns>>
    /\ UNCHANGED <<runVars, unitVars>>

\* lines 78-81 are outside the try of line 140: df["close"] of a frame
\* without that column raises KeyError, which leaves scan
PrecomputeRaises ==
    /\ pc = "precompute"
    /\ ~(RequiredColumns \subseteq columns)
    /\ pc' = "raised"
    /\ UNCHANGED <<det_idx, enabled, emitted, signals, scan_result, columns>>
    /\ UNCHANGED <<runVars, unitVars>>

\* lines 139-142: an enabled detector returns and its signals are appended
RunDetector(out) ==
    /\ pc = "scan"
    /\ det_idx < MaxDetectors
    /\ Invoked(DetectorNames[det_idx + 1], enabled)
    /\ det_idx' = det_idx + 1
    /\ emitted' = Append(emitted, [called |-> TRUE, raised |-> FALSE, out |-> out])
    /\ signals' = signals \o out
    /\ UNCHANGED <<enabled, scan_result, pc, columns>>
    /\ UNCHANGED <<runVars, unitVars>>

\* lines 143-144: an enabled detector raises after it has built the signals
\* of built
DetectorRaises(built) ==
    /\ pc = "scan"
    /\ det_idx < MaxDetectors
    /\ Invoked(DetectorNames[det_idx + 1], enabled)
    /\ det_idx' = det_idx + 1
    /\ emitted' = Append(emitted, [called |-> TRUE, raised |-> TRUE, out |-> built])
    /\ signals' = KeptOnRaise(signals, built)
    /\ UNCHANGED <<enabled, scan_result, pc, columns>>
    /\ UNCHANGED <<runVars, unitVars>>

\* line 139: the detector's name is not in enabled
SkipDisabled ==
    /\ pc = "scan"
    /\ det_idx < MaxDetectors
    /\ ~Invoked(DetectorNames[det_idx + 1], enabled)
    /\ det_idx' = det_idx + 1
    /\ emitted' = Append(emitted, [called |-> FALSE, raised |-> FALSE, out |-> <<>>])
    /\ UNCHANGED <<enabled, signals, scan_result, pc, columns>>
    /\ UNCHANGED <<runVars, unitVars>>

\* lines 146-147
SortAndReturn ==
    /\ pc = "scan"
    /\ det_idx = MaxDetectors
    /\ scan_result' = Some(SortByTimestamp(signals))
    /\ pc' = "scanned"
    /\ UNCHANGED <<enabled, det_idx, emitted, signals, columns>>
    /\ UNCHANGED <<runVars, unitVars>>

ScanNext ==
    \/ Precompute
    \/ PrecomputeRaises
    \/ \E out \in DetectorOutputs(det_idx + 1) : RunDetector(out)
    \/ \E built \in DetectorOutputs(det_idx + 1) : DetectorRaises(built)
    \/ SkipDisabled
    \/ SortAndReturn

ScanSpec == ScanInit /\ [][ScanNext]_vars
-----------------------------------------------------------------------------
(* Properties of the trade simulator *)

LastTrade(ts) == ts[Len(ts)]

\* C1: no two trades of the list _simulate_trades builds have entry timestamps
\* on the same calendar date, whatever the order of the signals.
C1_OneTradePerDate ==
    \A i, j \in 1..Len(trades) :
        i # j => DateOf(trades[i].entry_time) # DateOf(trades[j].entry_time)

C3_TradeOnlyWithCapital ==
    [][Len(trades') > Len(trades) => capital > 0]_vars

\* C3 (second half): once a settlement has brought the capital to <= 0, the
\* list gets no further trade.
C3_ExhaustingTradeIsLast ==
    [][(capital <= 0 /\ trades # <<>>) => trades' = trades]_vars

\* C4: every trade is opened with contracts >= 1 and a cost
\* contracts x entry_premium x 100 that does not exceed the running capital
\* at admission.
C4_AffordableSizing ==
    [][Len(trades') > Len(trades) =>
            LET t == LastTrade(trades')
            IN  /\ t.contracts >= 1
                /\ t.contracts * t.entry_premium * 100 <= capital
      ]_vars

\* bars of df strictly after the signal, on the signal's date
BarsAfter(sig) ==
    {k \in 1..Len(df) : /\ df[k].ts > sig.timestamp
                        /\ DateOf(df[k].ts) = DateOf(sig.timestamp)}

\* C7: a signal that passes admission and the premium threshold and has no bar
\* after it on its day yields a trade with exit_premium 0, exit_underlying the
\* signal's entry price and exit_time the signal's timestamp; the trade is
\* settled (the whole premium is lost, commission and slippage are charged) and
\* the day is locked.
C7_NoForwardBars ==
    [][(/\ n_seen' = n_seen + 1
        /\ BarsAfter(signal') = {}
        /\ active_trade_date # Some(DateOf(signal'.timestamp))
        /\ EntryPremium(config, signal') >= MinTradeablePremium)
       => /\ Len(trades') = Len(trades) + 1
          /\ LET t    == LastTrade(trades')
                 loss == t.entry_premium * 100 * t.contracts
             IN  /\ t.entry_time = signal'.timestamp
                 /\ t.exit_premium = 0
                 /\ t.exit_underlying = signal'.entry_price
                 /\ t.exit_time = signal'.timestamp
                 /\ t.contracts >= 1
                 /\ (capital - loss - t.contracts * config.commission_per_contract * 2
                        - capital') * 100 = loss * config.slippage_pct
          /\ active_trade_date' = Some(DateOf(signal'.timestamp))
      ]_vars

\* a trade without forward bars was recorded, then a signal of its day skipped
C7_Witness ==
    /\ trades # <<>>
    /\ LastTrade(trades).exit_time = LastTrade(trades).entry_time
    /\ LastTrade(trades).exit_premium = 0
    /\ active_trade_date = Some(DateOf(LastTrade(trades).entry_time))
    /\ n_seen > Len(trades)
    /\ DateOf(signal.timestamp) = DateOf(LastTrade(trades).entry_time)
    /\ capital < config.initial_capital

\* C8: a signal whose quoted entry premium is below 0.05 is skipped: no trade
\* is appended, the running capital and the locked date are unchanged.
C8_CheapSignalSkipped ==
    [][(/\ n_seen' = n_seen + 1
        /\ EntryPremium(config, signal') < MinTradeablePremium)
       => /\ trades' = trades
          /\ capital' = capital
          /\ active_trade_date' = active_trade_date
      ]_vars

\* the first signal was skipped for its premium, and a signal of the same day
\* can still open a trade
C8_Witness ==
    /\ pc = "loop"
    /\ n_seen = 1
    /\ trades = <<>>
    /\ active_trade_date = None
    /\ EntryPremium(config, signal) < MinTradeablePremium
    /\ capital = config.initial_capital
    /\ \E sig \in Signals :
            /\ DateOf(sig.timestamp) = DateOf(signal.timestamp)
            /\ ENABLED OpenTrade(sig)

\* C9: the final capital Backtester.run reports equals the running capital the
\* simulator held after its last settled trade.
C9_FinalCapitalIsRunningCapital ==
    pc = "done" => final_capital = Some(capital)

-----------------------------------------------------------------------------
(* Properties of a _find_exit call *)

CallStrike == StrikeOf(signal)
CallType == OptionTypeOf(signal.direction)
CallPremium == EntryPremium(config, signal)
PremiumAt(k) ==
    CurrentPremium(config, df[k], CallStrike, IvOf(config, signal), CallType,
                   MarketClose(signal, today))

\* current_premium <= entry x (1 - stop), current_premium >= entry x (1 + target)
AtOrBelowStop(k) ==
    PremiumAt(k) * 100 <= CallPremium * (100 - config.max_loss_per_trade_pct)
AtOrAboveTarget(k) ==
    PremiumAt(k) * 100 >= CallPremium * (100 + config.profit_target_pct)
Breaching == {k \in BarsAfter(signal) : AtOrBelowStop(k) \/ AtOrAboveTarget(k)}
FirstOf(S) == CHOOSE k \in S : \A m \in S : k <= m
LastOf(S) == CHOOSE k \in S : \A m \in S : k >= m

\* C5: the exit is decided at the first forward bar whose repriced premium is
\* <= the stop premium or >= the target premium; a stop exit records the stop
\* premium, a target exit the target premium, and a bar that meets both
\* conditions gives the stop-loss exit.
C5_FirstBreachDecides ==
    (pc = "exit_found" /\ Breaching # {}) =>
        LET k == FirstOf(Breaching)
        IN  /\ exit_result.exit_time = df[k].ts
            /\ exit_result.exit_price = df[k].close
            /\ IF AtOrBelowStop(k)
               THEN /\ exit_result.exit_reason = "stop_loss"
                    /\ exit_result.exit_premium * 100 =
                            CallPremium * (100 - config.max_loss_per_trade_pct)
               ELSE /\ exit_result.exit_reason = "profit_target"
                    /\ exit_result.exit_premium * 100 =
                            CallPremium * (100 + config.profit_target_pct)

\* a bar that meets both conditions decided a stop-loss exit, and later forward
\* bars were left unread
C5_Witness ==
    /\ pc = "exit_found"
    /\ Breaching # {}
    /\ AtOrBelowStop(FirstOf(Breaching))
    /\ AtOrAboveTarget(FirstOf(Breaching))
    /\ exit_result.exit_reason = "stop_loss"
    /\ FirstOf(Breaching) < LastOf(BarsAfter(signal))

\* C6: when no forward bar of the signal's day breaches the stop or the target,
\* the exit is at the last forward bar, by expiration, with the intrinsic value
\* at that bar's close: max(S-K, 0) for a call, max(K-S, 0) for a put.
C6_ExpirationAtIntrinsic ==
    (pc = "exit_found" /\ BarsAfter(signal) # {} /\ Breaching = {}) =>
        LET last == df[LastOf(BarsAfter(signal))]
        IN  /\ exit_result.exit_reason = "expiration"
            /\ exit_result.exit_time = last.ts
            /\ exit_result.exit_price = last.close
            /\ exit_result.exit_premium =
                    IF CallType = "CALL"
                    THEN Max(last.close - CallStrike * 100, 0) * PremiumPerCent
                    ELSE Max(CallStrike * 100 - last.close, 0) * PremiumPerCent

\* two forward bars were read without a breach and the option expired in the money
C6_Witness ==
    /\ pc = "exit_found"
    /\ Cardinality(BarsAfter(signal)) >= 2
    /\ Breaching = {}
    /\ exit_result.exit_reason = "expiration"
    /\ exit_result.exit_premium > 0

-----------------------------------------------------------------------------
(* Properties of PatternDetector.scan *)

\* the detectors that contributed: called, and returned without raising
Contributing == {d \in 1..Len(emitted) : emitted[d].called /\ ~emitted[d].raised}
Expected == UNION {{emitted[d].out[k] : k \in 1..Len(emitted[d].out)} : d \in Contributing}
Returned == scan_result[1]

\* C10: the list scan returns holds exactly the signals of the enabled
\* detectors that did not raise, in non-decreasing timestamp order; signals of
\* equal timestamp are in detector list order and, within a detector, in
\* emission order.
C10_ScanSortedStable ==
    pc = "scanned" =>
        /\ {Returned[i] : i \in 1..Len(Returned)} = Expected
        /\ Len(Returned) = Cardinality(Expected)
        /\ \A i, j \in 1..Len(Returned) :
                i < j =>
                    /\ Returned[i].timestamp <= Returned[j].timestamp
                    /\ Returned[i].timestamp = Returned[j].timestamp =>
                            \/ Returned[i].detector < Returned[j].detector
                            \/ /\ Returned[i].detector = Returned[j].detector
                               /\ Returned[i].seq < Returned[j].seq

\* the sort moved a signal, two detectors tied on a timestamp and one
\* detector raised
C10_Witness ==
    /\ pc = "scanned"
    /\ Returned # signals
    /\ \E i, j \in 1..Len(Returned) :
            /\ Returned[i].timestamp = Returned[j].timestamp
            /\ Returned[i].detector # Returned[j].detector
    /\ \E d \in 1..Len(emitted) : emitted[d].raised


-----------------------------------------------------------------------------
(* Failure isolation and tagging in PatternDetector.scan *)

RaisedNames == {DetectorNames[d] : d \in {e \in 1..Len(emitted) : emitted[e].raised}}

\* the list a scan builds and sorts when no detector raises: the outputs of
\* the detectors whose name is in enabled_patterns, in list order
RECURSIVE Collected(_, _)
Collected(enabled_patterns, upto) ==
    IF upto = 0 THEN <<>>
    ELSE Collected(enabled_patterns, upto - 1) \o
            (IF DetectorNames[upto] \in enabled_patterns THEN emitted[upto].out ELSE <<>>)

\* C11: a detector that raises contributes nothing, not even the signals it
\* built before failing, and the other enabled detectors still run: the list
\* returned is the list of the same scan with the raising detectors disabled.
C11_RaisingDetectorIsolated ==
    pc = "scanned" =>
        /\ Len(emitted) = MaxDetectors
        /\ \A d \in Detectors : emitted[d].called <=> DetectorNames[d] \in enabled
        /\ Returned = SortByTimestamp(Collected(enabled \ RaisedNames, MaxDetectors))

\* a detector raised after building a signal, and a detector later in the
\* list returned signals that are in the result
C11_Witness ==
    /\ pc = "scanned"
    /\ \E d, e \in Detectors :
            /\ d < e
            /\ emitted[d].raised /\ emitted[d].out # <<>>
            /\ ~emitted[e].raised /\ emitted[e].out # <<>>
            /\ \E i \in 1..Len(Returned) : Returned[i].detector = e

\* C13: every signal scan returns carries a tag of config.enabled_patterns; a
\* detector whose name is not enabled is not called, and every registered
\* detector writes the name it is registered under into its signals.
C13_TagsAreEnabled ==
    /\ Len(EmittedTag) = Len(DetectorNames)
    /\ \A d \in 1..Len(DetectorNames) : EmittedTag[d] = DetectorNames[d]
    /\ \A d \in 1..Len(emitted) :
            DetectorNames[d] \notin enabled =>
                ~emitted[d].called /\ emitted[d].out = <<>>
    /\ pc = "scanned" =>
            \A i \in 1..Len(Returned) : Returned[i].pattern \in enabled

\* a scan with one detector disabled and two called returned signals
C13_Witness ==
    /\ pc = "scanned"
    /\ Returned # <<>>
    /\ \E d \in Detectors : DetectorNames[d] \notin enabled
    /\ \E d, e \in Detectors : d # e /\ emitted[d].called /\ emitted[e].called

\* C12: neither scan nor the trade simulation lets an exception reach the
\* caller, whatever the bars and the signals are: the operation always ends
\* by returning its list.
C12_NoExceptionPropagates == pc # "raised"

-----------------------------------------------------------------------------
(* patterns.py: the detectors called with the frame Backtester.run builds *)

MaxPostBars == 3            \* bars of a day after its opening range

OrbMinutes == 15            \* orb_minutes
OrbBreakoutBuffer == 10     \* orb_breakout_buffer, cents
AdxTrendThreshold == 25     \* adx_trend_threshold
SessionOpenMinute == 570    \* 09:30, opening_range_end less orb_minutes
DetectBarInterval == 15     \* intraday_interval "15m"
GapCents == 50              \* gap < -0.5, gap > 0.5
FirstHourBars == 12         \* range(2, min(len(group), 12))
DefaultAtr == 100           \* atr_val.get(idx, 1.0), and 1.0 for a NaN

Min(a, b) == IF a <= b THEN a ELSE b
MinOf(S) == CHOOSE i \in S : \A j \in S : i <= j
MaxOver(S) == CHOOSE i \in S : \A j \in S : i >= j

\* the signals of the indices of hits, in index order
RECURSIVE Gather(_, _, _)
Gather(hits, make, n) ==
    IF n = 0 THEN <<>>
    ELSE Gather(hits, make, n - 1) \o (IF n \in hits THEN <<make[n]>> ELSE <<>>)

SignalOf(ts, pattern, direction, confidence, entry, stop, target) ==
    [timestamp |-> ts, pattern |-> pattern, direction |-> direction,
     confidence |-> confidence, entry_price |-> entry, stop_price |-> stop,
     target_price |-> target]

\* a = atr_val.get(idx, 1.0); if pd.isna(a): a = 1.0
AtrOrDefault(c) == IF c.atr = None THEN DefaultAtr ELSE c.atr[1]

\* the rows of one calendar date, and the dates of the frame in order
RowsOf(frame, date) == SelectSeq(frame, LAMBDA b : DateOf(b.ts) = date)
DatesOf(frame) == {DateOf(frame[i].ts) : i \in 1..Len(frame)}

\* lines 151-163: high and low of the bars up to orb_minutes after the first
get_opening_range(group) ==
    LET cutoff  == group[1].ts + OrbMinutes
        or_bars == SelectSeq(group, LAMBDA b : b.ts <= cutoff)
    IN  [high |-> MaxOver({or_bars[i].high : i \in 1..Len(or_bars)}),
         low  |-> MinOf({or_bars[i].low : i \in 1..Len(or_bars)})]

\* lines 176-177: the bars of the day after the opening range
PostOr(group) ==
    LET cutoff == group[1].ts + OrbMinutes
    IN  SelectSeq(group, LAMBDA b : b.ts > cutoff)

\* the confidence each registered detector starts from, in hundredths (lines
\* 239, 239, 285, 321, 349, 375, 398, 425, 455, 480, 504, 528, 569, 609, 644,
\* 668, 705, 742, 773, 800, 849, 909, 946, 972, 1006, 1040)
BaseConfidence ==
    <<50, 50, 65, 65, 55, 55, 55, 55, 60, 60, 55, 55, 65, 60, 60, 60, 60, 60,
      65, 65, 60, 60, 65, 65, 60, 60>>

\* lines 237-253
orb_confidence(row, or_high, or_low, c) ==
    LET volume_bonus ==
            IF c.vol_sma # None /\ c.vol_sma[1] > 0 /\ 2 * row.volume > 3 * c.vol_sma[1]
            THEN 15 ELSE 0
        adx_bonus == IF c.adx # None /\ c.adx[1] > AdxTrendThreshold THEN 15 ELSE 0
        or_range == or_high - or_low
        tight_bonus ==
            IF or_range > 0 /\ c.atr # None /\ or_range < c.atr[1] THEN 10 ELSE 0
    IN  Min(50 + volume_bonus + adx_bonus + tight_bonus, 100)

\* the per-day lists of a detector that walks the frame date by date,
\* concatenated in date order
RECURSIVE PerDate(_, _)
PerDate(of_date, dates) ==
    IF dates = {} THEN <<>>
    ELSE LET d == MinOf(dates)
         IN  of_date[d] \o PerDate(of_date, dates \ {d})

\* lines 174-199: the first bar i >= 1 of post_or that closes above the
\* threshold after a bar that did not; break
orb_long_of_day(group, c) ==
    LET r         == get_opening_range(group)
        post_or   == PostOr(group)
        threshold == r.high + OrbBreakoutBuffer
        hits      == {i \in 2..Len(post_or) :
                        post_or[i - 1].close <= threshold /\ post_or[i].close > threshold}
    IN  IF hits = {} THEN <<>>
        ELSE LET row == post_or[MinOf(hits)]
             IN  <<SignalOf(row.ts, "opening_range_breakout", "LONG",
                            orb_confidence(row, r.high, r.low, c), row.close,
                            r.high - (r.high - r.low) \div 2,
                            row.close + (3 * (r.high - r.low)) \div 2)>>

detect_orb_long(frame, c) ==
    PerDate([d \in DatesOf(frame) |-> orb_long_of_day(RowsOf(frame, d), c)], DatesOf(frame))

\* lines 211-233
orb_short_of_day(group, c) ==
    LET r         == get_opening_range(group)
        post_or   == PostOr(group)
        threshold == r.low - OrbBreakoutBuffer
        hits      == {i \in 2..Len(post_or) :
                        post_or[i - 1].close >= threshold /\ post_or[i].close < threshold}
    IN  IF hits = {} THEN <<>>
        ELSE LET row == post_or[MinOf(hits)]
             IN  <<SignalOf(row.ts, "opening_range_breakdown", "SHORT",
                            orb_confidence(row, r.high, r.low, c), row.close,
                            r.low + (r.high - r.low) \div 2,
                            row.close - (3 * (r.high - r.low)) \div 2)>>

detect_orb_short(frame, c) ==
    PerDate([d \in DatesOf(frame) |-> orb_short_of_day(RowsOf(frame, d), c)], DatesOf(frame))

\* variant: the ADX bonus added as 10 instead of 0.10
macd_confidence_Whole(c) ==
    55 + (IF c.adx # None /\ c.adx[1] > AdxTrendThreshold THEN 1000 ELSE 0)

\* lines 398-400
macd_confidence(c) ==
    55 + (IF c.adx # None /\ c.adx[1] > AdxTrendThreshold THEN 10 ELSE 0)

\* lines 390-408; c.macd_cross holds the bars at which the MACD line is above
\* the signal line after a bar at which it was below
detect_macd_bull(frame, c) ==
    LET a    == AtrOrDefault(c)
        hits == {i \in 2..Len(frame) : i \in c.macd_cross}
    IN  Gather(hits,
               [i \in hits |->
                    SignalOf(frame[i].ts, "macd_bullish_cross", "LONG", macd_confidence(c),
                             frame[i].close, frame[i].close - a,
                             frame[i].close + (3 * a) \div 2)],
               Len(frame))

\* lines 688-712: on a gap down, the first bar from the third on, within the
\* first 12, that closes above its predecessor; break
gap_fill_long_of_day(group) ==
    LET first_bar == group[1]
        gap       == first_bar.open - first_bar.prev_close
        hits      == {i \in 3..Min(Len(group), FirstHourBars) :
                        group[i].close > group[i - 1].close}
    IN  IF Len(group) < 3 \/ ~(gap < -GapCents) \/ hits = {} THEN <<>>
        ELSE LET i == MinOf(hits)
             IN  <<SignalOf(group[i].ts, "gap_fill_long", "LONG", 60, group[i].close,
                            MinOf({group[k].low : k \in 1..i}), first_bar.prev_close)>>

detect_gap_fill_long(frame) ==
    PerDate([d \in DatesOf(frame) |-> gap_fill_long_of_day(RowsOf(frame, d))], DatesOf(frame))

\* lines 725-749
gap_fill_short_of_day(group) ==
    LET first_bar == group[1]
        gap       == first_bar.open - first_bar.prev_close
        hits      == {i \in 3..Min(Len(group), FirstHourBars) :
                        group[i].close < group[i - 1].close}
    IN  IF Len(group) < 3 \/ ~(gap > GapCents) \/ hits = {} THEN <<>>
        ELSE LET i == MinOf(hits)
             IN  <<SignalOf(group[i].ts, "gap_fill_short", "SHORT", 60, group[i].close,
                            MaxOver({group[k].high : k \in 1..i}), first_bar.prev_close)>>

detect_gap_fill_short(frame) ==
    PerDate([d \in DatesOf(frame) |-> gap_fill_short_of_day(RowsOf(frame, d))], DatesOf(frame))

\* lines 762-778: every bar of the frame that closes above prev_high after a
\* bar that did not
detect_prev_high_break(frame, c) ==
    LET a    == AtrOrDefault(c)
        hits == {i \in 2..Len(frame) :
                    frame[i - 1].close <= frame[i].prev_high /\ frame[i].close > frame[i].prev_high}
    IN  Gather(hits,
               [i \in hits |->
                    SignalOf(frame[i].ts, "previous_day_high_break", "LONG", 65,
                             frame[i].close, frame[i].prev_high - (3 * a) \div 10,
                             frame[i].close + a)],
               Len(frame))

\* lines 789-805
detect_prev_low_break(frame, c) ==
    LET a    == AtrOrDefault(c)
        hits == {i \in 2..Len(frame) :
                    frame[i - 1].close >= frame[i].prev_low /\ frame[i].close < frame[i].prev_low}
    IN  Gather(hits,
               [i \in hits |->
                    SignalOf(frame[i].ts, "previous_day_low_break", "SHORT", 65,
                             frame[i].close, frame[i].prev_low + (3 * a) \div 10,
                             frame[i].close - a)],
               Len(frame))

-----------------------------------------------------------------------------
(* Frames: get_previous_day_levels over a series of 15-minute bars *)

OrBars == (OrbMinutes \div DetectBarInterval) + 1     \* bars with index <= cutoff
BarsOfDay == OrBars + MaxPostBars

\* the bars of the opening range: the first one, then the others
FirstBar == [open |-> 45075, high |-> 45100, low |-> 45050, close |-> 45075, volume |-> 100]
RangeBar == [open |-> 45075, high |-> 45090, low |-> 45060, close |-> 45075, volume |-> 100]

\* closes of the bars after the range: below the range low less the buffer,
\* inside the range, at the range high plus the buffer, above it
PostCloses == {45020, 45075, 45110, 45130}
Gaps == {-125, 0, 125}          \* first open less the previous close
PostVolumes == {100, 200}

QuietDay == [closes |-> [k \in 1..MaxPostBars |-> 45075], gap |-> 0, volume |-> 100]
BreakoutDay ==
    [closes |-> [k \in 1..MaxPostBars |-> IF k = 1 THEN 45075 ELSE 45130],
     gap |-> 0, volume |-> 100]
EarlierDays == {QuietDay, BreakoutDay}
LastDays == [closes : [1..MaxPostBars -> PostCloses], gap : Gaps, volume : PostVolumes]

\* open, high, low, close, volume of bar k of a day
Ohlcv(day, k) ==
    IF k = 1
    THEN LET o == FirstBar.open + day.gap
         IN  [FirstBar EXCEPT !.open = o, !.high = Max(o, FirstBar.high),
                              !.low = Min(o, FirstBar.low)]
    ELSE IF k <= OrBars THEN RangeBar
    ELSE LET c == day.closes[k - OrBars]
             o == IF k - 1 <= OrBars THEN RangeBar.close ELSE day.closes[k - 1 - OrBars]
         IN  [open |-> o, high |-> Max(o, c), low |-> Min(o, c), close |-> c,
              volume |-> day.volume]

\* data_fetcher.py lines 109-116: high max, low min, close last of a day
LevelsOf(day) ==
    [prev_high  |-> MaxOver({Ohlcv(day, k).high : k \in 1..BarsOfDay}),
     prev_low   |-> MinOf({Ohlcv(day, k).low : k \in 1..BarsOfDay}),
     prev_close |-> Ohlcv(day, BarsOfDay).close]

\* the frame of MaxDays days; days[d] is day d and days[d - 1] the day before
\* it; the day before day 1 is a quiet day whose own rows line 119 of
\* data_fetcher.py dropped
FrameOf(days) ==
    [n \in 1..(MaxDays * BarsOfDay) |->
        LET d      == ((n - 1) \div BarsOfDay) + 1
            k      == ((n - 1) % BarsOfDay) + 1
            bar    == Ohlcv(days[d], k)
            levels == LevelsOf(IF d = 1 THEN QuietDay ELSE days[d - 1])
        IN  [ts |-> Stamp(d, SessionOpenMinute + DetectBarInterval * (k - 1)),
             open |-> bar.open, high |-> bar.high, low |-> bar.low,
             close |-> bar.close, volume |-> bar.volume,
             prev_high |-> levels.prev_high, prev_low |-> levels.prev_low,
             prev_close |-> levels.prev_close]]

Frames ==
    {FrameOf([d \in 1..MaxDays |-> IF d = MaxDays THEN last ELSE earlier]) :
        earlier \in EarlierDays, last \in LastDays}

\* indicator values at the bars the detectors read: vol_sma, adx and atr are
\* NaN (None) or a number; the MACD cross is at no bar or at the last bar
Contexts ==
    [vol_sma : {None, Some(100)}, adx : {None, Some(20), Some(30)},
     atr : {None, Some(40), Some(60)},
     macd_cross : {{}, {MaxDays * BarsOfDay}}]

DetectInit ==
    /\ df \in Frames
    /\ ctx \in Contexts
    /\ det_out = <<>>
    /\ pc = "detect"
    /\ config = DefaultConfig
    /\ signal = NoSignal
    /\ n_seen = 0
    /\ trades = <<>>
    /\ capital = config.initial_capital
    /\ active_trade_date = None
    /\ final_capital = None
    /\ exit_result = NoExit
    /\ ScanIdle
    /\ AmbientIdle
    /\ call_args = None
    /\ call_result = None
    /\ in_squeeze = FALSE
    /\ bw_seen = <<>>
    /\ squeeze_signals = <<>>

\* line 141: the detector registered under name is called, position-th of the
\* detectors walked here
Detected(position, name, pattern_signals) ==
    /\ pc = "detect"
    /\ Len(det_out) = position - 1
    /\ det_out' = Append(det_out, [name |-> name, signals |-> pattern_signals])
    /\ UNCHANGED <<ctx, pc>>
    /\ UNCHANGED <<runVars, scanVars, callVars, squeezeVars,
                   alertVars, clockVars>>

\* lines 110, 111, 116, 126-129: the detectors walked here, in list order
DetectNext ==
    \/ Detected(1, "opening_range_breakout", detect_orb_long(df, ctx))
    \/ Detected(2, "opening_range_breakdown", detect_orb_short(df, ctx))
    \/ Detected(3, "macd_bullish_cross", detect_macd_bull(df, ctx))
    \/ Detected(4, "gap_fill_long", detect_gap_fill_long(df))
    \/ Detected(5, "gap_fill_short", detect_gap_fill_short(df))
    \/ Detected(6, "previous_day_high_break", detect_prev_high_break(df, ctx))
    \/ Detected(7, "previous_day_low_break", detect_prev_low_break(df, ctx))

DetectSpec == DetectInit /\ [][DetectNext]_vars

-----------------------------------------------------------------------------
(* Properties of the detectors *)

RangeBreakDetectors ==
    {"opening_range_breakout", "opening_range_breakdown", "previous_day_high_break",
     "previous_day_low_break", "gap_fill_long", "gap_fill_short"}

\* no two signals of the list are on the same calendar date
OnePerDate(list) ==
    \A i, j \in 1..Len(list) :
        i # j => DateOf(list[i].timestamp) # DateOf(list[j].timestamp)

\* C14: each range-break detector (opening range breakout and breakdown,
\* previous day high and low break, gap fill long and short) returns at most
\* one signal per calendar day.
C14_OneSignalPerDay ==
    \A k \in 1..Len(det_out) :
        det_out[k].name \in RangeBreakDetectors => OnePerDate(det_out[k].signals)

\* C14, for the four detectors that leave the day's loop with break
C14_BreakingDetectorsOnePerDay ==
    \A k \in 1..Len(det_out) :
        det_out[k].name \in {"opening_range_breakout", "opening_range_breakdown",
                             "gap_fill_long", "gap_fill_short"}
            => OnePerDate(det_out[k].signals)

\* C16: every signal a detector emits has a confidence between 0 and 1: it is
\* the detector's base, which lies between 0.5 and 0.65, plus bonuses that
\* are not negative, and it is at most 1.0.
C16_ConfidenceInUnitRange ==
    /\ Len(BaseConfidence) = Len(DetectorNames)
    /\ \A d \in 1..Len(BaseConfidence) : BaseConfidence[d] >= 50 /\ BaseConfidence[d] <= 65
    /\ \A k \in 1..Len(det_out) :
            \A i \in 1..Len(det_out[k].signals) :
                LET s == det_out[k].signals[i]
                IN  /\ s.confidence >= BaseConfidence[IndexOf(DetectorNames, s.pattern)]
                    /\ s.confidence >= 0
                    /\ s.confidence <= 100

\* an opening range signal got every bonus and a MACD signal got the ADX bonus
C16_Witness ==
    /\ Len(det_out) >= 3
    /\ \E i \in 1..Len(det_out[1].signals) : det_out[1].signals[i].confidence = 90
    /\ \E i \in 1..Len(det_out[3].signals) : det_out[3].signals[i].confidence = 65

\* the bars after the opening range of a date that close above its high plus
\* the buffer, as positions in the frame
ClosesAbove(date) ==
    LET r == get_opening_range(RowsOf(df, date))
    IN  {n \in 1..Len(df) :
            /\ DateOf(df[n].ts) = date
            /\ df[n].ts > RowsOf(df, date)[1].ts + OrbMinutes
            /\ df[n].close > r.high + OrbBreakoutBuffer}

OrbLongOn(date) ==
    SelectSeq(det_out[1].signals, LAMBDA s : DateOf(s.timestamp) = date)

\* C18: on a day with opening range (H, L) on which a bar after the range
\* closes above H + buffer, the opening_range_breakout detector emits exactly
\* one signal for the day: Long, at the first such bar and its close, stop
\* H - 0.5 (H - L), target entry + 1.5 (H - L), and confidence >= 0.65 when
\* the bar's volume is above 1.5 times the average volume.
C18_OrbLongAtFirstCloseAbove ==
    Len(det_out) >= 1 =>
        \A date \in DatesOf(df) :
            ClosesAbove(date) # {} =>
                LET r   == get_opening_range(RowsOf(df, date))
                    bar == df[MinOf(ClosesAbove(date))]
                    out == OrbLongOn(date)
                IN  /\ Len(out) = 1
                    /\ out[1].direction = "LONG"
                    /\ out[1].pattern = "opening_range_breakout"
                    /\ out[1].timestamp = bar.ts
                    /\ out[1].entry_price = bar.close
                    /\ 2 * out[1].stop_price = 2 * r.high - (r.high - r.low)
                    /\ 2 * out[1].target_price = 2 * bar.close + 3 * (r.high - r.low)
                    /\ (ctx.vol_sma # None /\ 2 * bar.volume > 3 * ctx.vol_sma[1])
                            => out[1].confidence >= 65

\* C18, when the first close above the threshold is not at the first bar
\* after the range
C18_OrbLongAfterFirstPostBar ==
    Len(det_out) >= 1 =>
        \A date \in DatesOf(df) :
            (/\ ClosesAbove(date) # {}
             /\ df[MinOf(ClosesAbove(date)) - 1].ts > RowsOf(df, date)[1].ts + OrbMinutes)
            =>  LET r   == get_opening_range(RowsOf(df, date))
                    bar == df[MinOf(ClosesAbove(date))]
                    out == OrbLongOn(date)
                IN  /\ Len(out) = 1
                    /\ out[1].timestamp = bar.ts
                    /\ out[1].entry_price = bar.close
                    /\ 2 * out[1].stop_price = 2 * r.high - (r.high - r.low)
                    /\ 2 * out[1].target_price = 2 * bar.close + 3 * (r.high - r.low)
                    /\ (ctx.vol_sma # None /\ 2 * bar.volume > 3 * ctx.vol_sma[1])
                            => out[1].confidence >= 65

-----------------------------------------------------------------------------
(* patterns.py: PatternDetector._detect_bb_squeeze, lines 538-582, bar by bar *)

MaxSqueezeBars == 4         \* bars of the frame after the first

BbSqueezeThreshold == 50    \* bb_squeeze_threshold 0.5, in hundredths of a percent

\* bandwidth of a bar: NaN, below the threshold, at it, above it
Bandwidths == {None, Some(30), Some(BbSqueezeThreshold), Some(80)}
\* the close of a bar: above the upper band, below the lower band, between
Sides == {"above", "below", "inside"}

\* variant: the flag stays set after a breakout bar
squeeze_step_KeepsFlag(flag, bw, side) ==
    IF bw = None THEN [in_squeeze |-> flag, emit |-> FALSE]
    ELSE IF bw[1] < BbSqueezeThreshold THEN [in_squeeze |-> TRUE, emit |-> FALSE]
    ELSE [in_squeeze |-> flag, emit |-> flag /\ side # "inside"]

\* lines 549-581, one pass of the loop body: the flag after the bar, and
\* whether a signal was appended
squeeze_step(flag, bw, side) ==
    IF bw = None THEN [in_squeeze |-> flag, emit |-> FALSE]
    ELSE IF bw[1] < BbSqueezeThreshold THEN [in_squeeze |-> TRUE, emit |-> FALSE]
    ELSE IF flag THEN [in_squeeze |-> FALSE, emit |-> side # "inside"]
    ELSE [in_squeeze |-> flag, emit |-> FALSE]

\* line 546; the loop of line 547 starts at the second bar, so the first bar
\* of the frame is in bw_seen without having been read
SqueezeInit ==
    /\ in_squeeze = FALSE
    /\ \E bw \in Bandwidths, side \in Sides :
            bw_seen = <<[bw |-> bw, side |-> side, emitted |-> FALSE]>>
    /\ squeeze_signals = <<>>
    /\ pc = "squeeze"
    /\ config = DefaultConfig
    /\ df = <<>>
    /\ signal = NoSignal
    /\ n_seen = 0
    /\ trades = <<>>
    /\ capital = config.initial_capital
    /\ active_trade_date = None
    /\ final_capital = None
    /\ exit_result = NoExit
    /\ ScanIdle
    /\ AmbientIdle
    /\ call_args = None
    /\ call_result = None
    /\ ctx = None
    /\ det_out = <<>>

\* lines 547-581: the next bar of the frame
SqueezeBar(bw, side) ==
    /\ pc = "squeeze"
    /\ Len(bw_seen) <= MaxSqueezeBars
    /\ LET step == squeeze_step(in_squeeze, bw, side)
       IN  /\ in_squeeze' = step.in_squeeze
           /\ bw_seen' = Append(bw_seen, [bw |-> bw, side |-> side, emitted |-> step.emit])
           /\ squeeze_signals' =
                IF step.emit
                THEN Append(squeeze_signals,
                            [timestamp |-> Len(bw_seen) + 1,
                             pattern |-> "bollinger_squeeze_breakout",
                             direction |-> IF side = "above" THEN "LONG" ELSE "SHORT",
                             confidence |-> 65])
                ELSE squeeze_signals
    /\ UNCHANGED pc
    /\ UNCHANGED <<runVars, scanVars, callVars, detectVars,
                   alertVars, clockVars>>

\* line 582
SqueezeReturn ==
    /\ pc = "squeeze"
    /\ pc' = "squeezed"
    /\ UNCHANGED <<runVars, scanVars, callVars, detectVars, squeezeVars,
                   alertVars, clockVars>>

SqueezeNext ==
    \/ \E bw \in Bandwidths, side \in Sides : SqueezeBar(bw, side)
    \/ SqueezeReturn

SqueezeSpec == SqueezeInit /\ [][SqueezeNext]_vars

\* bars with a bandwidth below the threshold, and at or above it
Squeezed(i) == bw_seen[i].bw # None /\ bw_seen[i].bw[1] < BbSqueezeThreshold
Expanded(i) == bw_seen[i].bw # None /\ bw_seen[i].bw[1] >= BbSqueezeThreshold

\* C15: the squeeze detector emits a signal only on a bar whose bandwidth is
\* at or above the threshold and whose last predecessor with a defined
\* bandwidth was below it, and never twice without a bar below the threshold
\* in between: one signal at most per squeeze episode.
C15_OneBreakoutPerSqueeze ==
    /\ \A i \in 1..Len(bw_seen) :
            bw_seen[i].emitted =>
                /\ Expanded(i)
                /\ \E j \in 1..(i - 1) :
                        /\ Squeezed(j)
                        /\ \A k \in (j + 1)..(i - 1) : bw_seen[k].bw = None
    /\ \A i, j \in 1..Len(bw_seen) :
            (i < j /\ bw_seen[i].emitted /\ bw_seen[j].emitted) =>
                \E k \in (i + 1)..(j - 1) : Squeezed(k)
    /\ Len(squeeze_signals) = Cardinality({i \in 1..Len(bw_seen) : bw_seen[i].emitted})

\* a breakout was emitted after a squeeze and a NaN bar, and the next bar at
\* or above the threshold, with the close outside the bands, emitted nothing
C15_Witness ==
    /\ pc = "squeezed"
    /\ \E i \in 4..(Len(bw_seen) - 1) :
            /\ bw_seen[i].emitted
            /\ bw_seen[i - 1].bw = None
            /\ Squeezed(i - 2)
            /\ Expanded(i + 1) /\ bw_seen[i + 1].side # "inside" /\ ~bw_seen[i + 1].emitted

-----------------------------------------------------------------------------
(* Single calls of Signal.risk_reward and black_scholes_price *)

\* entry, stop and target levels of a Signal, in cents
PriceLevels == {44900, 44950, 45000, 45050, 45100}

\* a / b of Python for b > 0, kept as the exact fraction num / den
Quotient(a, b) == [num |-> a, den |-> b]

\* patterns.py lines 42-46; 0.0 is the fraction 0 / 1
risk_reward_Signed(sig) ==
    LET risk   == Abs(sig.entry_price - sig.stop_price)
        reward == sig.target_price - sig.entry_price
    IN  IF risk > 0 THEN Quotient(reward, risk) ELSE Quotient(0, 1)

risk_reward(sig) ==
    LET risk   == Abs(sig.entry_price - sig.stop_price)
        reward == Abs(sig.target_price - sig.entry_price)
    IN  IF risk > 0 THEN Quotient(reward, risk) ELSE Quotient(0, 1)

RiskRewardArgs ==
    [fn : {"risk_reward"}, entry_price : PriceLevels, stop_price : PriceLevels,
     target_price : PriceLevels]

\* Arguments of black_scholes_price: the tabulated grid for T > 0, and at or
\* past expiry (T = 0, T = -10) also the strike 445 of the documented example;
\* sigma = 0 is the volatility at which the closed form divides by zero.
PricingArgs ==
    {a \in [fn : {"black_scholes_price"},
            S : {SGrid[i] : i \in 1..Len(SGrid)},
            K : {KGrid[i] : i \in 1..Len(KGrid)} \cup {445},
            T : {TGrid[i] : i \in 1..Len(TGrid)} \cup {-10, 0},
            sigma : {VGrid[i] : i \in 1..Len(VGrid)} \cup {0},
            option_type : {"CALL", "PUT"}] :
        a.T > 0 => a.K # 445}

\* minutes_to_close in tenths of a minute on both sides of the three steps
\* (60, 180 and 300 minutes), at 0 and below it; base_iv x1000
IvArgs ==
    [fn : {"estimate_iv_from_time"},
     minutes_to_close : {-600, 0, 1, 599, 600, 601, 1799, 1800, 1801, 2999, 3000, 3001,
                         3900},
     base_iv : {DefaultIv, 200}]


-----------------------------------------------------------------------------
(* backtester.py: BacktestResult *)

MaxTrades == 3      \* trades in the list of a BacktestResult

\* Trades of a result, premiums and capital in dollars: bought at 4.00 and
\* sold at 8.00, 5.00, 4.00 (breakeven) or 2.00, on two days.
ResultTrade(entry_time, exit_premium, contracts, pattern) ==
    [entry_time |-> entry_time, exit_time |-> entry_time + 30,
     entry_premium |-> 4, exit_premium |-> exit_premium, contracts |-> contracts,
     pattern |-> pattern]

ResultTrades ==
    {ResultTrade(Stamp(1, 600), 8, 1, "orb_long"),
     ResultTrade(Stamp(2, 660), 5, 2, "macd_bullish_cross"),
     ResultTrade(Stamp(1, 600), 4, 1, "orb_long"),
     ResultTrade(Stamp(2, 600), 2, 1, "orb_long"),
     ResultTrade(Stamp(1, 660), 2, 2, "macd_bullish_cross")}

ResultCapital == 10000

TradeLists == UNION {[1..n -> ResultTrades] : n \in 0..MaxTrades}

ResultArgs ==
    [fn : {"BacktestResult"}, trades : TradeLists, initial_capital : {ResultCapital}]

\* OptionTrade.pnl_pct, options_model.py lines 195-199 (whole on ResultTrades)
pnl_pct(t) ==
    IF t.entry_premium <= 0 THEN 0
    ELSE ((t.exit_premium - t.entry_premium) * 100) \div t.entry_premium

\* OptionTrade.duration_minutes, options_model.py lines 201-205
duration_minutes(t) == t.exit_time - t.entry_time

RECURSIVE SumOf(_)
SumOf(xs) == IF xs = <<>> THEN 0 ELSE Head(xs) + SumOf(Tail(xs))

PnlsOf(ts) == [i \in 1..Len(ts) |-> total_pnl(ts[i])]

IsWinner(t) == total_pnl(t) > 0
IsLoser_Strict(t) == total_pnl(t) < 0
IsLoser(t) == total_pnl(t) <= 0

\* lines 40-46
winners(ts) == SelectSeq(ts, IsWinner)
losers(ts) == SelectSeq(ts, IsLoser)

\* lines 48-52
win_rate_Unguarded(ts) == Quotient(Len(winners(ts)) * 100, Len(ts))
win_rate(ts) ==
    IF Len(ts) = 0 THEN Quotient(0, 1)
    ELSE Quotient(Len(winners(ts)) * 100, Len(ts))

\* lines 54-56
result_total_pnl(ts) == SumOf(PnlsOf(ts))

\* lines 58-62
avg_pnl(ts) ==
    IF Len(ts) = 0 THEN Quotient(0, 1) ELSE Quotient(result_total_pnl(ts), Len(ts))

\* lines 64-74
avg_winner(ts) ==
    IF winners(ts) = <<>> THEN Quotient(0, 1)
    ELSE Quotient(SumOf(PnlsOf(winners(ts))), Len(winners(ts)))

avg_loser(ts) ==
    IF losers(ts) = <<>> THEN Quotient(0, 1)
    ELSE Quotient(SumOf(PnlsOf(losers(ts))), Len(losers(ts)))

\* lines 76-82; float("inf") is the fraction 1 / 0
profit_factor(ts) ==
    LET gross_profit == SumOf(PnlsOf(winners(ts)))
        gross_loss   == Abs(SumOf(PnlsOf(losers(ts))))
    IN  IF gross_loss = 0
        THEN (IF gross_profit > 0 THEN Quotient(1, 0) ELSE Quotient(0, 1))
        ELSE Quotient(gross_profit, gross_loss)

\* lines 84-94: equity[k] after k - 1 trades, its running peak, and the
\* smallest (eq - peak) / peak * 100; peaks are positive here, so the
\* fractions are compared by cross-multiplication
Equity(ts, initial_capital) ==
    [k \in 1..(Len(ts) + 1) |-> initial_capital + SumOf(PnlsOf(SubSeq(ts, 1, k - 1)))]

max_drawdown(ts, initial_capital) ==
    IF ts = <<>> THEN Quotient(0, 1)
    ELSE LET eq   == Equity(ts, initial_capital)
             peak == [k \in DOMAIN eq |-> MaxOver({eq[j] : j \in 1..k})]
             dd   == [k \in DOMAIN eq |-> Quotient((eq[k] - peak[k]) * 100, peak[k])]
             low  == CHOOSE k \in DOMAIN eq : \A j \in DOMAIN eq :
                         dd[k].num * dd[j].den <= dd[j].num * dd[k].den
         IN  dd[low]

\* lines 96-106: avg / std * sqrt(252) kept as its sign and its square,
\* 252 * sum^2 / (n * sum of squares - sum^2); std = 0 when that divisor is 0
sharpe_ratio(ts) ==
    LET returns == [i \in 1..Len(ts) |-> pnl_pct(ts[i])]
        n       == Len(ts)
        total   == SumOf(returns)
        spread  == n * SumOf([i \in 1..n |-> returns[i] * returns[i]]) - total * total
    IN  IF n < 2 \/ spread = 0
        THEN [sign |-> 0, square |-> Quotient(0, 1)]
        ELSE [sign   |-> IF total > 0 THEN 1 ELSE IF total < 0 THEN -1 ELSE 0,
              square |-> Quotient(252 * total * total, spread)]

\* lines 108-112
avg_duration_minutes(ts) ==
    IF ts = <<>> THEN Quotient(0, 1)
    ELSE Quotient(SumOf([i \in 1..Len(ts) |-> duration_minutes(ts[i])]), Len(ts))

\* lines 114-163: the three breakdowns group the trades by a key (pattern,
\* weekday, hour of entry) into pnl, wins, count and the win rate; the order
\* of the keys in the returned dict is not represented
Breakdown(ts, key) ==
    [k \in {key[i] : i \in 1..Len(ts)} |->
        LET mine == SelectSeq([i \in 1..Len(ts) |-> [trade |-> ts[i], key |-> key[i]]],
                              LAMBDA e : e.key = k)
            own  == [i \in 1..Len(mine) |-> mine[i].trade]
        IN  [pnl      |-> SumOf(PnlsOf(own)),
             wins     |-> Len(winners(own)),
             count    |-> Len(own),
             win_rate |-> Quotient(Len(winners(own)) * 100, Len(own))]]

pattern_breakdown(ts) == Breakdown(ts, [i \in 1..Len(ts) |-> ts[i].pattern])
day_of_week_breakdown(ts) ==
    Breakdown(ts, [i \in 1..Len(ts) |-> DateOf(ts[i].entry_time) % 7])
hour_breakdown(ts) ==
    Breakdown(ts, [i \in 1..Len(ts) |-> (ts[i].entry_time % MinutesPerDay) \div 60])

\* every statistic of one BacktestResult
Statistics(ts, initial_capital) ==
    [total_trades          |-> Len(ts),
     winners               |-> winners(ts),
     losers                |-> losers(ts),
     win_rate              |-> win_rate(ts),
     total_pnl             |-> result_total_pnl(ts),
     avg_pnl               |-> avg_pnl(ts),
     avg_winner            |-> avg_winner(ts),
     avg_loser             |-> avg_loser(ts),
     profit_factor         |-> profit_factor(ts),
     max_drawdown          |-> max_drawdown(ts, initial_capital),
     sharpe_ratio          |-> sharpe_ratio(ts),
     avg_duration_minutes  |-> avg_duration_minutes(ts),
     pattern_breakdown     |-> pattern_breakdown(ts),
     day_of_week_breakdown |-> day_of_week_breakdown(ts),
     hour_breakdown        |-> hour_breakdown(ts)]

\* backtester.py lines 36-163, every property and breakdown read once
CallStatistics ==
    /\ pc = "call"
    /\ call_args[1].fn = "BacktestResult"
    /\ call_result' = Some(Statistics(call_args[1].trades, call_args[1].initial_capital))
    /\ pc' = "returned"
    /\ UNCHANGED <<call_args, runVars, scanVars, detectVars, squeezeVars,
                   alertVars, clockVars>>

-----------------------------------------------------------------------------
(* Single calls: the specification *)

CallInit ==
    /\ call_args \in {Some(a) : a \in RiskRewardArgs \cup PricingArgs \cup IvArgs
                                    \cup ResultArgs}
    /\ call_result = None
    /\ pc = "call"
    /\ config = DefaultConfig
    /\ df = <<>>
    /\ signal = NoSignal
    /\ n_seen = 0
    /\ trades = <<>>
    /\ capital = config.initial_capital
    /\ active_trade_date = None
    /\ final_capital = None
    /\ exit_result = NoExit
    /\ ScanIdle
    /\ AmbientIdle
    /\ ctx = None
    /\ det_out = <<>>
    /\ in_squeeze = FALSE
    /\ bw_seen = <<>>
    /\ squeeze_signals = <<>>

\* patterns.py lines 42-46
CallRiskReward ==
    /\ pc = "call"
    /\ call_args[1].fn = "risk_reward"
    /\ call_result' = Some(risk_reward(call_args[1]))
    /\ pc' = "returned"
    /\ UNCHANGED <<call_args, runVars, scanVars, detectVars, squeezeVars,
                   alertVars, clockVars>>

\* options_model.py lines 52-69, a call that returns
CallBlackScholes ==
    /\ pc = "call"
    /\ call_args[1].fn = "black_scholes_price"
    /\ LET a == call_args[1]
       IN  /\ ~black_scholes_raises(a.S, a.K, a.T, a.sigma)
           /\ call_result' = Some(black_scholes_price(a.S, a.K, a.T, DefaultRiskFreeRate,
                                                      a.sigma, a.option_type))
    /\ pc' = "returned"
    /\ UNCHANGED <<call_args, runVars, scanVars, detectVars, squeezeVars,
                   alertVars, clockVars>>

\* options_model.py lines 59-60, the division by sigma * sqrt_T raises
CallRaises ==
    /\ pc = "call"
    /\ call_args[1].fn = "black_scholes_price"
    /\ LET a == call_args[1]
       IN  black_scholes_raises(a.S, a.K, a.T, a.sigma)
    /\ pc' = "raised"
    /\ UNCHANGED <<call_args, call_result, runVars, scanVars, detectVars, squeezeVars,
                   alertVars, clockVars>>

\* options_model.py lines 151-168
CallEstimateIv ==
    /\ pc = "call"
    /\ call_args[1].fn = "estimate_iv_from_time"
    /\ call_result' = Some(estimate_iv_from_time(call_args[1].minutes_to_close,
                                                 call_args[1].base_iv))
    /\ pc' = "returned"
    /\ UNCHANGED <<call_args, runVars, scanVars, detectVars, squeezeVars,
                   alertVars, clockVars>>

CallNext ==
    \/ CallRiskReward \/ CallBlackScholes \/ CallRaises \/ CallEstimateIv
    \/ CallStatistics

CallSpec == CallInit /\ [][CallNext]_vars

CallReturned(fn) == pc = "returned" /\ call_args[1].fn = fn

\* C17: for every Signal, risk_reward is |target - entry| / |entry - stop|
\* when entry differs from stop, it is 0 when they are equal, and it is never
\* negative.
C17_RiskReward ==
    CallReturned("risk_reward") =>
        LET a  == call_args[1]
            rr == call_result[1]
        IN  /\ rr.den > 0
            /\ rr.num >= 0
            /\ a.entry_price # a.stop_price =>
                   rr.num * Abs(a.entry_price - a.stop_price)
                       = Abs(a.target_price - a.entry_price) * rr.den
            /\ a.entry_price = a.stop_price => rr.num = 0

\* a SHORT-shaped signal: target below entry below stop, ratio 2
C17_Witness ==
    /\ CallReturned("risk_reward")
    /\ call_args[1].target_price < call_args[1].entry_price
    /\ call_args[1].entry_price < call_args[1].stop_price
    /\ call_result[1].num = 2 * call_result[1].den

\* C19: black_scholes_price with T <= 0 returns exactly max(S - K, 0) for a
\* call and max(K - S, 0) for a put, and for T > 0 the returned price is never
\* below 0.01.
C19_IntrinsicAtExpiryFlooredBefore ==
    CallReturned("black_scholes_price") =>
        LET a     == call_args[1]
            price == call_result[1]
            gain  == IF a.option_type = "CALL" THEN a.S - a.K * 100
                                               ELSE a.K * 100 - a.S
        IN  /\ a.T <= 0 => price = (IF gain > 0 THEN gain ELSE 0) * PremiumPerCent
            /\ a.T > 0  => price >= PremiumPerCent

\* the documented example: S = 450, K = 445 at T = 0 gives call 5.00
C19_Witness ==
    /\ CallReturned("black_scholes_price")
    /\ call_args[1].S = 45000 /\ call_args[1].K = 445
    /\ call_args[1].T = 0 /\ call_args[1].option_type = "CALL"
    /\ call_result[1] = 500 * PremiumPerCent

\* C20: for fixed S, K, r and sigma, black_scholes_price is non-decreasing in
\* T over T >= 0, for calls and for puts: the price returned for T is not
\* below the price of any earlier T1 with 0 <= T1 <= T.
C20_NonDecreasingInT ==
    CallReturned("black_scholes_price") /\ call_args[1].T >= 0 =>
        LET a == call_args[1]
        IN  \A b \in PricingArgs :
                /\ b.S = a.S /\ b.K = a.K /\ b.sigma = a.sigma
                /\ b.option_type = a.option_type
                /\ 0 <= b.T /\ b.T <= a.T
                => black_scholes_price(b.S, b.K, b.T, DefaultRiskFreeRate, b.sigma,
                                       b.option_type) <= call_result[1]

\* the same for calls alone
C20_CallsNonDecreasingInT ==
    CallReturned("black_scholes_price") /\ call_args[1].option_type = "CALL" =>
        C20_NonDecreasingInT

-----------------------------------------------------------------------------
(* estimate_iv_from_time *)

\* the multiplier (in tenths) behind a returned volatility, 0 if there is none
MultiplierOf(base_iv, iv) ==
    IF \E m \in {12, 15, 20, 25} : iv * 10 = base_iv * m
    THEN CHOOSE m \in {12, 15, 20, 25} : iv * 10 = base_iv * m
    ELSE 0

\* C21: estimate_iv_from_time returns base_iv times a step multiplier of the
\* hours to close: 2.5 above 5 hours, 2.0 above 3 hours, 1.5 above 1 hour, 1.2
\* otherwise; the multiplier is non-decreasing in minutes_to_close, always one
\* of 1.2, 1.5, 2.0, 2.5, and 1.2 for every minutes_to_close <= 60.
C21_IvStepMultiplier ==
    CallReturned("estimate_iv_from_time") =>
        LET a == call_args[1]
            m == MultiplierOf(a.base_iv, call_result[1])
        IN  /\ m \in {12, 15, 20, 25}
            /\ a.minutes_to_close > 3000 => m = 25
            /\ a.minutes_to_close > 1800 /\ a.minutes_to_close <= 3000 => m = 20
            /\ a.minutes_to_close > 600 /\ a.minutes_to_close <= 1800 => m = 15
            /\ a.minutes_to_close <= 600 => m = 12
            /\ \A b \in IvArgs :
                   b.base_iv = a.base_iv /\ b.minutes_to_close <= a.minutes_to_close
                   => MultiplierOf(b.base_iv,
                                   estimate_iv_from_time(b.minutes_to_close, b.base_iv)) <= m

\* exactly one hour to close: still the lowest step
C21_Witness ==
    /\ CallReturned("estimate_iv_from_time")
    /\ call_args[1].minutes_to_close = 600
    /\ call_args[1].base_iv = DefaultIv
    /\ call_result[1] = 180

-----------------------------------------------------------------------------
(* BacktestResult: claims *)

\* the total_pnl of the trades of ts that are above zero (positive TRUE) or
\* at or below it (positive FALSE)
RECURSIVE PnlOnSide(_, _)
PnlOnSide(ts, positive) ==
    IF ts = <<>> THEN 0
    ELSE (IF (total_pnl(Head(ts)) > 0) = positive THEN total_pnl(Head(ts)) ELSE 0)
         + PnlOnSide(Tail(ts), positive)

\* C22: profit_factor is +infinity if and only if gross loss is 0 and gross
\* profit is > 0, it is 0 when both are 0, and otherwise it is gross profit /
\* |gross loss|; winners and losers partition the trades, so that win_rate +
\* losers / total x 100 = 100 for every non-empty list.
C22_ProfitFactorAndPartition ==
    CallReturned("BacktestResult") =>
        LET ts           == call_args[1].trades
            s            == call_result[1]
            pf           == s.profit_factor
            gross_profit == PnlOnSide(ts, TRUE)
            gross_loss   == Abs(PnlOnSide(ts, FALSE))
        IN  /\ (pf.den = 0 /\ pf.num > 0) <=> (gross_loss = 0 /\ gross_profit > 0)
            /\ gross_loss = 0 /\ gross_profit = 0 => pf = Quotient(0, 1)
            /\ gross_loss # 0 => pf.den # 0 /\ pf.num * gross_loss = gross_profit * pf.den
            /\ \A i \in 1..Len(ts) :
                   (\E j \in 1..Len(s.winners) : s.winners[j] = ts[i])
                       # (\E j \in 1..Len(s.losers) : s.losers[j] = ts[i])
            /\ Len(s.winners) + Len(s.losers) = Len(ts)
            /\ ts # <<>> =>
                   s.win_rate.num * Len(ts) + Len(s.losers) * 100 * s.win_rate.den
                       = 100 * s.win_rate.den * Len(ts)

\* a winner, a breakeven trade and a loser in one list
C22_Witness ==
    /\ CallReturned("BacktestResult")
    /\ Len(call_args[1].trades) = 3
    /\ \E i, j, k \in 1..3 :
           /\ total_pnl(call_args[1].trades[i]) > 0
           /\ total_pnl(call_args[1].trades[j]) = 0
           /\ total_pnl(call_args[1].trades[k]) < 0
    /\ call_result[1].profit_factor.den > 0
    /\ Len(call_result[1].losers) = 2

\* C23: a BacktestResult with zero trades reports win_rate, total_pnl,
\* avg_pnl, max_drawdown, sharpe_ratio and profit_factor all 0 and empty
\* breakdowns; no statistic is the result of a division by zero.
C23_ZeroTradesAllZero ==
    CallReturned("BacktestResult") /\ call_args[1].trades = <<>> =>
        LET s == call_result[1]
        IN  /\ s.win_rate = Quotient(0, 1)
            /\ s.total_pnl = 0
            /\ s.avg_pnl = Quotient(0, 1)
            /\ s.max_drawdown = Quotient(0, 1)
            /\ s.sharpe_ratio.sign = 0 /\ s.sharpe_ratio.square = Quotient(0, 1)
            /\ s.profit_factor = Quotient(0, 1)
            /\ s.avg_winner = Quotient(0, 1) /\ s.avg_loser = Quotient(0, 1)
            /\ s.avg_duration_minutes = Quotient(0, 1)
            /\ DOMAIN s.pattern_breakdown = {}
            /\ DOMAIN s.day_of_week_breakdown = {}
            /\ DOMAIN s.hour_breakdown = {}

C23_Witness ==
    /\ CallReturned("BacktestResult")
    /\ call_args[1].trades = <<>>
    /\ call_result[1].total_trades = 0

-----------------------------------------------------------------------------
(* patterns.py: the time-of-day detectors *)

MiddayStartMinute == 690    \* dt.time(11, 30)
MiddayEndMinute == 750      \* dt.time(12, 30)
PowerStartMinute == 900     \* dt.time(15, 0)
PowerEndMinute == 930       \* dt.time(15, 30)
WindowBarsOfDay == 26       \* 15-minute bars from 09:30 to 15:45

ClockOf(ts) == ts % MinutesPerDay

\* rsi_vals.get(idx, 50) and adx_vals.get(idx, 0), with the same value for a NaN
RsiOrDefault(c) == IF c.rsi = None THEN 50 ELSE c.rsi[1]
AdxOrDefault(c) == IF c.adx = None THEN 0 ELSE c.adx[1]

\* lines 821-864: the first bar i >= 2 of the 11:30-12:30 bars at which a
\* bullish morning with RSI > 65 meets two falling closes, or a bearish
\* morning with RSI < 35 meets two rising closes; break
midday_reversal_of_day(group, c) ==
    LET midday  == SelectSeq(group, LAMBDA b : /\ ClockOf(b.ts) >= MiddayStartMinute
                                               /\ ClockOf(b.ts) <= MiddayEndMinute)
        morning == SelectSeq(group, LAMBDA b : ClockOf(b.ts) < MiddayStartMinute)
        a       == AtrOrDefault(c)
        rsi_val == RsiOrDefault(c)
        morning_move == morning[Len(morning)].close - morning[1].open
        short(i) == /\ 2 * morning_move > a /\ rsi_val > 65
                    /\ midday[i].close < midday[i - 1].close
                    /\ midday[i - 1].close < midday[i - 2].close
        long(i)  == /\ 2 * morning_move < -a /\ rsi_val < 35
                    /\ midday[i].close > midday[i - 1].close
                    /\ midday[i - 1].close > midday[i - 2].close
        hits    == {i \in 3..Len(midday) : short(i) \/ long(i)}
    IN  IF Len(midday) < 3 \/ Len(morning) < 5 \/ hits = {} THEN <<>>
        ELSE LET i == MinOf(hits)
             IN  IF short(i)
                 THEN <<SignalOf(midday[i].ts, "midday_reversal", "SHORT", 60,
                                 midday[i].close,
                                 MaxOver({midday[k].high : k \in 1..i}),
                                 midday[i].close - (4 * a) \div 5)>>
                 ELSE <<SignalOf(midday[i].ts, "midday_reversal", "LONG", 60,
                                 midday[i].close,
                                 MinOf({midday[k].low : k \in 1..i}),
                                 midday[i].close + (4 * a) \div 5)>>

detect_midday_reversal(frame, c) ==
    PerDate([d \in DatesOf(frame) |-> midday_reversal_of_day(RowsOf(frame, d), c)],
            DatesOf(frame))

\* lines 882-920: the third bar of the 15:00-15:30 bars, when the move of the
\* day before 15:00 is larger than half the ATR, ADX > 20, and the first
\* power-hour bars move the same way
power_hour_of_day(group, c) ==
    LET power     == SelectSeq(group, LAMBDA b : /\ ClockOf(b.ts) >= PowerStartMinute
                                                 /\ ClockOf(b.ts) <= PowerEndMinute)
        pre_power == SelectSeq(group, LAMBDA b : ClockOf(b.ts) < PowerStartMinute)
        a         == AtrOrDefault(c)
        day_move  == pre_power[Len(pre_power)].close - pre_power[1].open
        first_moves == power[3].close - power[1].close
    IN  IF Len(power) < 3 \/ Len(pre_power) < 10 THEN <<>>
        ELSE IF ~(2 * Abs(day_move) > a /\ AdxOrDefault(c) > 20) THEN <<>>
        ELSE IF day_move > 0 /\ first_moves > 0
        THEN <<SignalOf(power[3].ts, "power_hour_momentum", "LONG", 60, power[3].close,
                        MinOf({power[k].low : k \in 1..3}), power[3].close + a \div 2)>>
        ELSE IF day_move < 0 /\ first_moves < 0
        THEN <<SignalOf(power[3].ts, "power_hour_momentum", "SHORT", 60, power[3].close,
                        MaxOver({power[k].high : k \in 1..3}), power[3].close - a \div 2)>>
        ELSE <<>>

detect_power_hour(frame, c) ==
    PerDate([d \in DatesOf(frame) |-> power_hour_of_day(RowsOf(frame, d), c)],
            DatesOf(frame))

\* A day of 15-minute bars: flat at 450.00 until the last morning bar (11:15)
\* closes trend higher, four steps of the close from 11:45 to 12:30, flat
\* until 15:00, and the 15:30 close power above the 15:00 close.
WindowTrends == {-100, 0, 100}
WindowSteps == {-10, 0, 10}

WindowQuietDay == [trend |-> 0, steps |-> <<0, 0, 0, 0>>, power |-> 0]
WindowReversalDay == [trend |-> 100, steps |-> <<-10, -10, -10, -10>>, power |-> 10]
WindowLastDays == [trend : WindowTrends, steps : [1..4 -> WindowSteps], power : WindowSteps]

RECURSIVE WindowClose(_, _)
WindowClose(day, k) ==
    IF k < 8 THEN 45000
    ELSE IF k = 8 THEN 45000 + day.trend
    ELSE IF k = 9 THEN WindowClose(day, 8)
    ELSE IF k <= 13 THEN WindowClose(day, k - 1) + day.steps[k - 9]
    ELSE IF k = 25 THEN 45000 + day.trend + day.power
    ELSE 45000 + day.trend

WindowFrameOf(days) ==
    [n \in 1..(MaxDays * WindowBarsOfDay) |->
        LET d == ((n - 1) \div WindowBarsOfDay) + 1
            k == ((n - 1) % WindowBarsOfDay) + 1
            c == WindowClose(days[d], k)
            o == IF k = 1 THEN 45000 ELSE WindowClose(days[d], k - 1)
        IN  [ts |-> Stamp(d, SessionOpenMinute + DetectBarInterval * (k - 1)),
             open |-> o, high |-> Max(o, c), low |-> Min(o, c), close |-> c]]

WindowFrames ==
    {WindowFrameOf([d \in 1..MaxDays |-> IF d = MaxDays THEN last ELSE earlier]) :
        earlier \in {WindowQuietDay, WindowReversalDay}, last \in WindowLastDays}

WindowContexts ==
    [rsi : {None, Some(30), Some(70)}, adx : {None, Some(15), Some(25)},
     atr : {None, Some(60)}]

\* config.py lines 54-57: the defaults, a midday window one hour later, and a
\* half day that closes at 13:00
DefaultWindows ==
    [midday_reversal_start |-> 690, midday_reversal_end |-> 750,
     power_hour_start |-> 900, market_close |-> MarketCloseMinute]

WindowConfigs ==
    {DefaultWindows,
     [DefaultWindows EXCEPT !.midday_reversal_start = 750, !.midday_reversal_end = 810],
     [DefaultWindows EXCEPT !.power_hour_start = 720, !.market_close = 780]}

WindowInit ==
    /\ df \in WindowFrames
    /\ ctx \in WindowContexts
    /\ config \in WindowConfigs
    /\ det_out = <<>>
    /\ pc = "detect"
    /\ signal = NoSignal
    /\ n_seen = 0
    /\ trades = <<>>
    /\ capital = DefaultInitialCapital
    /\ active_trade_date = None
    /\ final_capital = None
    /\ exit_result = NoExit
    /\ ScanIdle
    /\ AmbientIdle
    /\ call_args = None
    /\ call_result = None
    /\ in_squeeze = FALSE
    /\ bw_seen = <<>>
    /\ squeeze_signals = <<>>

\* lines 130-131 of the detector list
WindowNext ==
    \/ Detected(1, "midday_reversal", detect_midday_reversal(df, ctx))
    \/ Detected(2, "power_hour_momentum", detect_power_hour(df, ctx))

WindowSpec == WindowInit /\ [][WindowNext]_vars

SignalsOf(name) ==
    IF \E k \in 1..Len(det_out) : det_out[k].name = name
    THEN (CHOOSE e \in {det_out[k] : k \in 1..Len(det_out)} : e.name = name).signals
    ELSE <<>>

InWindows(windows) ==
    /\ \A i \in 1..Len(SignalsOf("midday_reversal")) :
           LET t == ClockOf(SignalsOf("midday_reversal")[i].timestamp)
           IN  windows.midday_reversal_start <= t /\ t <= windows.midday_reversal_end
    /\ \A i \in 1..Len(SignalsOf("power_hour_momentum")) :
           LET t == ClockOf(SignalsOf("power_hour_momentum")[i].timestamp)
           IN  windows.power_hour_start <= t /\ t <= windows.market_close

OnePerDay(name) ==
    \A i, j \in 1..Len(SignalsOf(name)) :
        DateOf(SignalsOf(name)[i].timestamp) = DateOf(SignalsOf(name)[j].timestamp) => i = j

\* C24: for any configured boundaries, every midday_reversal signal has a
\* clock time in [midday_reversal_start, midday_reversal_end], every
\* power_hour_momentum signal one at or after power_hour_start and not after
\* market_close, and each of the two detectors emits at most one signal per day.
C24_SignalsInConfiguredWindows ==
    /\ InWindows(config)
    /\ OnePerDay("midday_reversal")
    /\ OnePerDay("power_hour_momentum")

\* the same against the default boundaries, whatever the configuration says
C24_SignalsInDefaultWindows ==
    /\ InWindows(DefaultWindows)
    /\ OnePerDay("midday_reversal")
    /\ OnePerDay("power_hour_momentum")

C24_BothDetectorsEmit ==
    /\ Len(SignalsOf("midday_reversal")) = MaxDays
    /\ Len(SignalsOf("power_hour_momentum")) = MaxDays
-----------------------------------------------------------------------------
(* Replay of _simulate_trades (backtester.py 233-318, 337-348) *)

\* C25: the trade a signal opens, and the capital after it, are the same on
\* whatever day the simulation is run: the only ambient value the simulator
\* can read, dt.date.today() at line 347, never reaches the result, so the
\* trade sequence and the capital are functions of the bars, the signal list
\* and the configuration alone.
C25_ReplayIndependentOfClock ==
    [][Len(trades') > Len(trades) =>
          \A clock \in WallClockDays :
              /\ trades' = Append(trades, NewTradeOn(clock, config, signal', df, capital))
              /\ capital' = Settle(config, capital, trades'[Len(trades')])]_vars

\* a trade priced bar by bar up to its exit, on a run made on another day
C25_Witness ==
    \E i \in 1..Len(trades) :
        /\ today # DateOf(trades[i].entry_time)
        /\ trades[i].exit_time > trades[i].entry_time
        /\ trades[i].exit_premium > 0

-----------------------------------------------------------------------------
(* The bars a _find_exit call reads (backtester.py 337-352) *)

\* the series with the close of every bar that is not strictly after the
\* signal on the signal's day replaced by a price that would breach
Masked(sig, bars) ==
    [k \in 1..Len(bars) |->
        IF k \in BarsAfter(sig) THEN bars[k] ELSE [bars[k] EXCEPT !.close = 43000]]

\* C26: an exit by stop, target or expiration is taken at a bar strictly after
\* the signal's timestamp and on the signal's calendar day, and the result of
\* the call does not depend on the close of any other bar of the series (a bar
\* at or before the signal, or a bar of another day).
C26_ExitOnlyAtLaterSameDayBar ==
    pc = "exit_found" =>
        /\ exit_result.exit_reason \in {"stop_loss", "profit_target", "expiration"} =>
                /\ exit_result.exit_time > signal.timestamp
                /\ DateOf(exit_result.exit_time) = DateOf(signal.timestamp)
                /\ \E k \in BarsAfter(signal) :
                        /\ df[k].ts = exit_result.exit_time
                        /\ df[k].close = exit_result.exit_price
        /\ exit_result = find_exit(config, signal, Masked(signal, df), CallType,
                                   CallStrike, IvOf(config, signal), CallPremium)

\* an exit at the last bar of the signal's day, in a series that also has a bar
\* at the signal's own timestamp and bars of a later day
C26_Witness ==
    /\ pc = "exit_found"
    /\ exit_result.exit_reason \in {"stop_loss", "profit_target", "expiration"}
    /\ exit_result.exit_time = Stamp(DateOf(signal.timestamp), MarketCloseMinute)
    /\ \E k \in 1..Len(df) : df[k].ts = signal.timestamp
    /\ \E k \in 1..Len(df) : DateOf(df[k].ts) > DateOf(signal.timestamp)

-----------------------------------------------------------------------------
(* Stop and target sizing of the detectors (patterns.py 165-235, 384-409, 678-713) *)

\* the detector registered under name, run on the frame with context c
Rerun(name, c) ==
    CASE name = "opening_range_breakout"  -> detect_orb_long(df, c)
      [] name = "opening_range_breakdown" -> detect_orb_short(df, c)
      [] name = "macd_bullish_cross"      -> detect_macd_bull(df, c)
      [] name = "gap_fill_long"           -> detect_gap_fill_long(df)
      [] name = "gap_fill_short"          -> detect_gap_fill_short(df)
      [] name = "previous_day_high_break" -> detect_prev_high_break(df, c)
      [] name = "previous_day_low_break"  -> detect_prev_low_break(df, c)

\* the signals of the k-th detector, the stop and the target of each, follow
\* the ATR: with the ATR doubled the detector gives another stop and another
\* target for every signal
SizedFromAtr(k) ==
    LET wider == Rerun(det_out[k].name, [ctx EXCEPT !.atr = Some(2 * AtrOrDefault(ctx))])
    IN  \A i \in 1..Len(det_out[k].signals) :
            /\ i <= Len(wider)
            /\ wider[i].stop_price # det_out[k].signals[i].stop_price
            /\ wider[i].target_price # det_out[k].signals[i].target_price

\* C27: every signal of every detector has its stop and its target sized from
\* the ATR at the signal bar (1.0 when that ATR is undefined).
C27_StopAndTargetSizedFromAtr ==
    \A k \in 1..Len(det_out) : SizedFromAtr(k)

\* C27, for the detectors that do read the ATR into both prices: the MACD
\* bullish cross and the previous-day high and low breaks
C27_AtrFamiliesSizedFromAtr ==
    \A k \in 1..Len(det_out) :
        det_out[k].name \in {"macd_bullish_cross", "previous_day_high_break",
                             "previous_day_low_break"} => SizedFromAtr(k)

\* a MACD cross and a previous-day break were signalled with the ATR undefined
C27_AtrFamiliesEmit ==
    /\ ctx.atr = None
    /\ \E k \in 1..Len(det_out) :
            det_out[k].name = "macd_bullish_cross" /\ det_out[k].signals # <<>>
    /\ \E k \in 1..Len(det_out) :
            det_out[k].name = "previous_day_high_break" /\ det_out[k].signals # <<>>
-----------------------------------------------------------------------------
(* alerts.py: AlertManager, called as cmd_monitor calls it (main.py 84-100) *)

DefaultCooldownSeconds == 300     \* alert_cooldown_seconds
DefaultMinConfidence == 60        \* min_pattern_confidence 0.6
SecondsPerMinute == 60

\* f"{signal.pattern}_{signal.direction.value}"
AlertKey(sig) == <<sig.pattern, "_", sig.direction>>

\* (now - self._last_alerts[key]).total_seconds()
ElapsedSeconds(now, last) == (now - last) * SecondsPerMinute

\* variant: the cooldown is compared with the distance in time, not with the
\* signed elapsed time
should_alert_AbsoluteElapsed(sig, cfg, last) ==
    IF sig.confidence < cfg.min_pattern_confidence THEN FALSE
    ELSE IF /\ AlertKey(sig) \in DOMAIN last
            /\ Abs(ElapsedSeconds(sig.timestamp, last[AlertKey(sig)]))
                    < cfg.alert_cooldown_seconds
         THEN FALSE
         ELSE TRUE

\* lines 32-45; now is signal.timestamp, a dt.datetime
should_alert(sig, cfg, last) ==
    IF sig.confidence < cfg.min_pattern_confidence THEN FALSE
    ELSE IF /\ AlertKey(sig) \in DOMAIN last
            /\ ElapsedSeconds(sig.timestamp, last[AlertKey(sig)])
                    < cfg.alert_cooldown_seconds
         THEN FALSE
         ELSE TRUE

\* line 54: self._last_alerts[key] = now
Recorded(last, key, now) ==
    [k \in DOMAIN last \cup {key} |-> IF k = key THEN now ELSE last[k]]

\* lines 68-84: the text names the pattern and is never empty
format_alert(sig) == sig.pattern

\* the signals of one day that the scans of a session hand to alert(): two
\* keys, confidences on both sides of the minimum, times 0, 4, 5 and 10
\* minutes after the open
AlertOffsets == {0, 4, 5, 10}
AlertSignals ==
    [timestamp : {Stamp(1, SessionOpenMinute + m) : m \in AlertOffsets},
     pattern : {"bb_squeeze_breakout"}, direction : {"LONG", "SHORT"},
     confidence : {50, 70}]
AlertConfigs ==
    {[alert_cooldown_seconds |-> c, min_pattern_confidence |-> DefaultMinConfidence] :
        c \in {0, DefaultCooldownSeconds}}

AlertInit ==
    /\ config \in AlertConfigs
    /\ last_alerts = <<>>
    /\ alert_log = <<>>
    /\ pc = "monitor"
    /\ today = 1
    /\ df = <<>>
    /\ signal = NoSignal
    /\ n_seen = 0
    /\ trades = <<>>
    /\ capital = DefaultInitialCapital
    /\ active_trade_date = None
    /\ final_capital = None
    /\ exit_result = NoExit
    /\ ScanIdle
    /\ UnitIdle

\* lines 47-66: one call of alert(signal)
Alert(sig) ==
    /\ pc = "monitor"
    /\ Len(alert_log) < MaxAlertCalls
    /\ last_alerts' = IF should_alert(sig, config, last_alerts)
                      THEN Recorded(last_alerts, AlertKey(sig), sig.timestamp)
                      ELSE last_alerts
    /\ alert_log' = Append(alert_log,
                           [signal |-> sig,
                            text   |-> IF should_alert(sig, config, last_alerts)
                                       THEN format_alert(sig) ELSE "",
                            before |-> last_alerts,
                            after  |-> last_alerts'])
    /\ UNCHANGED <<pc, runVars, scanVars, callVars, detectVars, squeezeVars, clockVars>>

AlertNext == \E sig \in AlertSignals : Alert(sig)

AlertSpec == AlertInit /\ [][AlertNext]_vars

Fired(i) == alert_log[i].text # ""

\* C28: with a cooldown above zero, two alerts that fired for the same
\* pattern+direction key have signal timestamps at least the cooldown apart; a
\* call that is suppressed returns the empty string and leaves the last-alert
\* map as it was, and one that fires returns a text; a signal that has fired
\* never fires again when it is submitted again.
C28_CooldownBetweenFiredAlerts ==
    config.alert_cooldown_seconds > 0 =>
        /\ \A i, j \in 1..Len(alert_log) :
                (/\ i < j
                 /\ Fired(i)
                 /\ Fired(j)
                 /\ AlertKey(alert_log[i].signal) = AlertKey(alert_log[j].signal))
                => Abs(ElapsedSeconds(alert_log[j].signal.timestamp,
                                      alert_log[i].signal.timestamp))
                        >= config.alert_cooldown_seconds
        /\ \A i \in 1..Len(alert_log) :
                LET call == alert_log[i]
                    key  == AlertKey(call.signal)
                IN  /\ call.signal.confidence < config.min_pattern_confidence
                            => ~Fired(i)
                    /\ (/\ key \in DOMAIN call.before
                         /\ call.signal.timestamp >= call.before[key]
                         /\ ElapsedSeconds(call.signal.timestamp, call.before[key])
                                < config.alert_cooldown_seconds)
                            => ~Fired(i)
                    /\ ~Fired(i) => call.after = call.before
        /\ \A i, j \in 1..Len(alert_log) :
                (i < j /\ Fired(i) /\ alert_log[j].signal = alert_log[i].signal)
                => ~Fired(j)

\* two alerts of one key fired a cooldown apart, then the first signal was
\* submitted again with enough confidence and was suppressed
C28_Witness ==
    /\ config.alert_cooldown_seconds > 0
    /\ \E i, j, k \in 1..Len(alert_log) :
            /\ i < j
            /\ j < k
            /\ Fired(i)
            /\ Fired(j)
            /\ AlertKey(alert_log[i].signal) = AlertKey(alert_log[j].signal)
            /\ alert_log[k].signal = alert_log[i].signal
            /\ ~Fired(k)
            /\ alert_log[k].after = alert_log[k].before

-----------------------------------------------------------------------------
(* Loss bound of a simulated trade (backtester.py 331-400, config.py 63-67) *)

\* C29: every trade of the output has
\* exit_premium >= entry_premium x (1 - max_loss_per_trade_pct / 100),
\* whichever path closed it.
C29_LossBoundedByStop ==
    \A i \in 1..Len(trades) :
        trades[i].exit_premium * 100 >=
            trades[i].entry_premium * (100 - config.max_loss_per_trade_pct)

\* C29, for the trades that a forward bar closed at the stop or at the target
C29_BreachExitsBoundedByStop ==
    \A i \in 1..Len(trades) :
        trades[i].exit_premium \in {StopPremium(config, trades[i].entry_premium),
                                    TargetPremium(config, trades[i].entry_premium)}
            => trades[i].exit_premium * 100 >=
                    trades[i].entry_premium * (100 - config.max_loss_per_trade_pct)

-----------------------------------------------------------------------------
(* _simulate_trades on the list scan returns (backtester.py 206-215, 233-318) *)

\* patterns.py line 146: the list is sorted by timestamp, so the loop never
\* takes a signal older than the one before it
SortedNext ==
    /\ Next
    /\ n_seen' > n_seen => signal'.timestamp >= signal.timestamp

SortedSpec == Init /\ [][SortedNext]_vars

\* the running capital when the n-th trade of ts was sized
RECURSIVE CapitalBefore(_, _)
CapitalBefore(ts, n) ==
    IF n = 1 THEN config.initial_capital
    ELSE Settle(config, CapitalBefore(ts, n - 1), ts[n - 1])

\* C30: on signals sorted by timestamp the trades do not overlap: each trade
\* exits on its entry date, the next trade is entered on a later date, hence
\* not before the exit of the one before it, and is sized with the capital
\* left by the settlement of all the trades before it.
C30_TradesSequential ==
    /\ \A n \in 1..Len(trades) :
            /\ DateOf(trades[n].exit_time) = DateOf(trades[n].entry_time)
            /\ trades[n].exit_time >= trades[n].entry_time
            /\ trades[n].contracts =
                    Contracts(config, CapitalBefore(trades, n), trades[n].entry_premium)
    /\ \A n \in 1..(Len(trades) - 1) :
            /\ DateOf(trades[n].entry_time) < DateOf(trades[n + 1].entry_time)
            /\ trades[n].exit_time <= trades[n + 1].entry_time
    /\ capital = CapitalBefore(trades, Len(trades) + 1)

\* a trade that exited at a later bar of its day was followed by a trade of a
\* later day, sized with a capital the first trade had changed
C30_Witness ==
    /\ Len(trades) >= 2
    /\ trades[1].exit_time > trades[1].entry_time
    /\ CapitalBefore(trades, 2) # config.initial_capital
    /\ trades[2].contracts # Contracts(config, config.initial_capital, trades[2].entry_premium)
=============================================================================
